---- MODULE Spec2Model ----
(***************************************************************************)
(* A model of the udashboard bytecode VM (src/src/vm.rs): the value model, *)
(* the program representation, the fetch-decode-dispatch loop with its     *)
(* call/return discipline, and the effect sink.                            *)
(*                                                                         *)
(* Rust panics (failed assert!, unwrap on None, out-of-range Vec::remove,  *)
(* integer overflow under overflow checks, division by zero) are modelled  *)
(* as the outcome "Panic": the invocation neither returns Ok nor an Error. *)
(* Arithmetic whose overflow behaviour depends on the build profile reads  *)
(* the variable build ("debug": overflow checks on, "release": wrapping).  *)
(***************************************************************************)
EXTENDS Integers, Sequences, FiniteSets, TLC

VARIABLES
    program,     \* VM.program: [code, data]
    stack,       \* VM.stack
    call_stack,  \* VM.call_stack
    cur_frame,   \* VM.cur_frame: [return_address, frame_pointer, arity]
    pc,          \* VM.pc
    capacity,    \* the capacity of VM.stack, set by VM::new(program, depth)
    env,         \* the Env passed to exec / step
    sink,        \* which Output implementation the embedder passes
    build,       \* "debug" or "release"
    insns,       \* the Vec<Insn> given to lower; empty when the embedder
                 \* builds the Program itself, as the tests do
    mode,        \* "source" (not lowered yet), "idle", "exec" (inside exec's
                 \* loop) or "crashed" (panicked)
    result,      \* what the last exec / step returned
    effects,     \* what the sink has received during the current invocation
    hist,        \* history (ghost) record used to state the properties
    pool,        \* lower's loop seen from its pool: data.len(), and the
                 \* LoadI it pushed last
    scopes,      \* an Env<T> of env.rs: its stack of scopes, and what the
                 \* last get returned
    checker,     \* a TypeChecker: its types, and what it returned last
    read_source  \* a ReadSource of data.rs with its reader thread and the
                 \* thread that calls get_state

vars == <<program, stack, call_stack, cur_frame, pc, capacity, env, sink,
          build, insns, mode, result, effects, hist, pool, scopes, checker,
          read_source>>

\* The variables of the VM and of the loader's instruction lists.
vm_vars == <<program, stack, call_stack, cur_frame, pc, capacity, env, sink,
             build, insns, mode, result, effects, hist>>

----------------------------------------------------------------------------
(* Bounds of the model.                                                    *)

\* Longest program drawn from the full opcode alphabet.
MaxLen == 2
\* Stack capacities 0 .. MaxCap are tried.
MaxCap == 3
\* The call stack (unbounded in the source) is explored up to this depth.
MaxCalls == 3
\* Width of Int in the model (i64 in the source, scaled down).
IntBits == 15
\* Floats are multiples of 1/FloatDen.
FloatDen == 2
\* Length of the instruction lists given to lower.
MaxSrc == 3
\* Items of a List expression given to the type checker.
MaxItems == 3
\* Scopes open at a time in an Env.
MaxScopes == 3
\* Effect records per invocation (unbounded in the source).
MaxEffects == 3
\* Largest argument of the recursive test programs.
MaxArg == 3
\* Input lines counted while one get_state call waits (the count stops
\* there; the lines keep arriving).
MaxLines == 3

----------------------------------------------------------------------------
(* Values, type tags, errors.                                              *)

TypeTag == {"Bool", "Int", "Float", "Str", "List", "Map", "Addr"}

VBool(b)  == [t |-> "Bool", v |-> b]
VInt(n)   == [t |-> "Int", v |-> n]
VFloat(h) == [t |-> "Float", k |-> "fin", v |-> h]
VFloatNaN == [t |-> "Float", k |-> "nan", v |-> 0]
VFloatInf(neg) == [t |-> "Float", k |-> "inf", v |-> IF neg THEN -1 ELSE 1]
VStr(s)   == [t |-> "Str", v |-> s]
VList(l)  == [t |-> "List", v |-> l]
VMap(m)   == [t |-> "Map", v |-> m]
VAddr(a)  == [t |-> "Addr", v |-> a]

get_type(value) == value.t

Underflow          == [e |-> "Underflow"]
Overflow           == [e |-> "Overflow"]
NotImplemented     == [e |-> "NotImplemented"]
IllegalOpcode      == [e |-> "IllegalOpcode"]
IllegalAddr(i)     == [e |-> "IllegalAddr", idx |-> i]
TypeError(ex, got) == [e |-> "TypeError", expect |-> ex, got |-> got]
TypeMismatch(a, b) == [e |-> "TypeMismatch", t1 |-> a, t2 |-> b]
IndexError(i)      == [e |-> "IndexError", index |-> i]
KeyError(key)      == [e |-> "KeyError", key |-> key]
Arity(n, arity)    == [e |-> "Arity", n |-> n, arity |-> arity]
DebugBreak         == [e |-> "DebugBreak"]
HaltErr            == [e |-> "Halt"]

ErrorKinds == {"Underflow", "Overflow", "NotImplemented", "IllegalOpcode",
               "IllegalAddr", "TypeError", "TypeMismatch", "IndexError",
               "KeyError", "Arity", "DebugBreak", "Halt"}

\* Result<T>, extended with the panic outcome.
Ok(x)      == [k |-> "Ok", val |-> x]
Err(e)     == [k |-> "Err", err |-> e]
Panic(msg) == [k |-> "Panic", msg |-> msg]

expected(expect, got) == TypeError(expect, get_type(got))

\* A faulty type_mismatch that names the operands in the order popped.
type_mismatch_swapped(a, b) == TypeMismatch(get_type(b), get_type(a))

type_mismatch(a, b) == TypeMismatch(get_type(a), get_type(b))

----------------------------------------------------------------------------
(* Machine arithmetic.                                                     *)

IntMin == -(2 ^ (IntBits - 1))
IntMax == 2 ^ (IntBits - 1) - 1

AbsI(x) == IF x < 0 THEN -x ELSE x

\* Rust's integer / and %: truncation toward zero, remainder signed like
\* the dividend.
TruncDiv(a, b) ==
    LET q == AbsI(a) \div AbsI(b)
    IN IF (a < 0) # (b < 0) THEN -q ELSE q

TruncRem(a, b) == a - b * TruncDiv(a, b)

\* Two's complement wrap-around to the Int width.
WrapInt(x) == ((x - IntMin) % (2 ^ IntBits)) + IntMin

\* An Int result x of +, -, *, unary - or abs: overflow panics when the
\* build checks overflow and wraps otherwise.
IntResult(x) ==
    IF x >= IntMin /\ x <= IntMax THEN Ok(VInt(x))
    ELSE IF build = "debug" THEN Panic("arithmetic overflow")
    ELSE Ok(VInt(WrapInt(x)))

RECURSIVE BitsOf(_, _, _, _)
\* Bitwise combination of the n low bits of the unsigned numbers a and b.
BitsOf(f, a, b, n) ==
    IF n = 0 THEN 0
    ELSE LET x == a % 2
             y == b % 2
             bit == CASE f = "and" -> IF x = 1 /\ y = 1 THEN 1 ELSE 0
                      [] f = "or"  -> IF x = 1 \/ y = 1 THEN 1 ELSE 0
                      [] f = "xor" -> IF x # y THEN 1 ELSE 0
         IN bit + 2 * BitsOf(f, a \div 2, b \div 2, n - 1)

Unsigned(x) == IF x < 0 THEN x + 2 ^ IntBits ELSE x

IntBitwise(f, a, b) ==
    VInt(WrapInt(BitsOf(f, Unsigned(a), Unsigned(b), IntBits)))

\* a << b and a >> b on Int: a shift amount outside 0 .. width-1 panics
\* when the build checks overflow and is masked to the width otherwise.
IntShift(left, a, b) ==
    IF (b < 0 \/ b >= IntBits) /\ build = "debug"
    THEN Panic("shift with overflow")
    ELSE LET s == b % IntBits
         IN IF left THEN Ok(VInt(WrapInt(a * 2 ^ s)))
            ELSE Ok(VInt((a - (a % (2 ^ s))) \div (2 ^ s)))

RECURSIVE IntPowSteps(_, _, _)
\* i64::pow by repeated multiplication: acc * a^e, or "overflow".
IntPowSteps(acc, a, e) ==
    IF e = 0 THEN Ok(VInt(acc))
    ELSE LET r == IntResult(acc * a)
         IN IF r.k # "Ok" THEN r ELSE IntPowSteps(r.val.v, a, e - 1)

RECURSIVE WrapPow(_, _)
\* a^e with wrapping multiplication, by squaring as i64::pow does.
WrapPow(a, e) ==
    IF e = 0 THEN 1
    ELSE LET h == WrapPow(a, e \div 2)
             sq == WrapInt(h * h)
         IN IF e % 2 = 0 THEN sq ELSE WrapInt(sq * a)

\* a.pow(b as u32): a negative b casts to an exponent of at least 2^31.
IntPow(a, b) ==
    IF b >= 0 /\ (a \in {-1, 0, 1} => b <= 2 * IntBits)
       /\ (a \notin {-1, 0, 1} => b <= IntBits)
    THEN IntPowSteps(1, a, b)
    ELSE CASE a = 0  -> Ok(VInt(0))
           [] a = 1  -> Ok(VInt(1))
           [] a = -1 -> Ok(VInt(IF b % 2 = 0 THEN 1 ELSE -1))
           [] OTHER  -> IF build = "debug" THEN Panic("arithmetic overflow")
                        ELSE IF a % 2 = 0 THEN Ok(VInt(0))
                        ELSE Ok(VInt(WrapPow(a, b % (2 ^ (IntBits - 2)))))

IsNaN(x) == x.k = "nan"
IsInf(x) == x.k = "inf"
IsFin(x) == x.k = "fin"
Sign(x)  == IF x.v < 0 THEN -1 ELSE 1

\* f64 arithmetic on the grid of multiples of 1/FloatDen; an inexact
\* product or quotient is rounded toward zero.
fneg(a) ==
    CASE IsNaN(a) -> a
      [] IsInf(a) -> VFloatInf(a.v > 0)
      [] OTHER    -> VFloat(-a.v)

fabs(a) ==
    CASE IsNaN(a) -> a
      [] IsInf(a) -> VFloatInf(FALSE)
      [] OTHER    -> VFloat(AbsI(a.v))

fadd(a, b) ==
    CASE IsNaN(a) \/ IsNaN(b)  -> VFloatNaN
      [] IsInf(a) /\ IsInf(b)  -> IF a.v = b.v THEN a ELSE VFloatNaN
      [] IsInf(a)              -> a
      [] IsInf(b)              -> b
      [] OTHER                 -> VFloat(a.v + b.v)

fsub(a, b) == fadd(a, fneg(b))

fmul(a, b) ==
    CASE IsNaN(a) \/ IsNaN(b) -> VFloatNaN
      [] IsInf(a) \/ IsInf(b) ->
            IF a.v = 0 \/ b.v = 0 THEN VFloatNaN
            ELSE VFloatInf(Sign(a) # Sign(b))
      [] OTHER -> VFloat(TruncDiv(a.v * b.v, FloatDen))

fdiv(a, b) ==
    CASE IsNaN(a) \/ IsNaN(b) -> VFloatNaN
      [] IsInf(a) /\ IsInf(b) -> VFloatNaN
      [] IsInf(a)             -> VFloatInf(Sign(a) # Sign(b))
      [] IsInf(b)             -> VFloat(0)
      [] b.v = 0              -> IF a.v = 0 THEN VFloatNaN
                                 ELSE VFloatInf(a.v < 0)
      [] OTHER -> VFloat(TruncDiv(a.v * FloatDen, b.v))

frem(a, b) ==
    CASE IsNaN(a) \/ IsNaN(b) -> VFloatNaN
      [] IsInf(a)             -> VFloatNaN
      [] IsInf(b)             -> a
      [] b.v = 0              -> VFloatNaN
      [] OTHER                -> VFloat(TruncRem(a.v, b.v))

RECURSIVE FPowSteps(_, _, _)
FPowSteps(acc, a, e) ==
    IF e = 0 THEN acc ELSE FPowSteps(fmul(acc, a), a, e - 1)

\* f64::powf for finite operands with an integral exponent of small size;
\* every other case is outside the grid and yields NaN in the model.
fpow(a, b) ==
    CASE IsFin(b) /\ b.v = 0 -> VFloat(FloatDen)
      [] IsFin(a) /\ IsFin(b) /\ b.v % FloatDen = 0
         /\ AbsI(b.v) <= FloatDen * IntBits ->
            LET p == FPowSteps(VFloat(FloatDen), a, AbsI(b.v) \div FloatDen)
            IN IF b.v > 0 THEN p ELSE fdiv(VFloat(FloatDen), p)
      [] OTHER -> VFloatNaN

\* The order of f64: every comparison with NaN is false.
flt(a, b) ==
    CASE IsNaN(a) \/ IsNaN(b) -> FALSE
      [] IsInf(a) /\ IsInf(b) -> a.v < b.v
      [] IsInf(a)             -> a.v < 0
      [] IsInf(b)             -> b.v > 0
      [] OTHER                -> a.v < b.v

feq(a, b) == ~IsNaN(a) /\ ~IsNaN(b) /\ a = b

\* Int(v) as f64 and Float(v) as i64 (truncating, saturating, NaN to 0).
IntToFloat(n) == VFloat(n * FloatDen)

FloatToInt(x) ==
    CASE IsNaN(x) -> VInt(0)
      [] IsInf(x) -> VInt(IF x.v > 0 THEN IntMax ELSE IntMin)
      [] OTHER    -> LET q == TruncDiv(x.v, FloatDen)
                     IN VInt(IF q > IntMax THEN IntMax
                             ELSE IF q < IntMin THEN IntMin ELSE q)

----------------------------------------------------------------------------
(* Value operations (impl Value).                                          *)

Both(a, b, tt) == a.t = tt /\ b.t = tt

\* A faulty coerce that also turns a Bool into a Float.
coerce_lenient(self, tt) ==
    CASE self.t = "Bool"  /\ tt = "Bool"  -> Ok(self)
      [] self.t = "Bool"  /\ tt = "Int"   -> Ok(VInt(IF self.v THEN 1 ELSE 0))
      [] self.t = "Bool"  /\ tt = "Float" ->
            Ok(IntToFloat(IF self.v THEN 1 ELSE 0))
      [] self.t = "Int"   /\ tt = "Bool"  -> Ok(VBool(self.v # 0))
      [] self.t = "Int"   /\ tt = "Int"   -> Ok(self)
      [] self.t = "Int"   /\ tt = "Float" -> Ok(IntToFloat(self.v))
      [] self.t = "Float" /\ tt = "Int"   -> Ok(FloatToInt(self))
      [] self.t = "Float" /\ tt = "Float" -> Ok(self)
      [] self.t = "Str"   /\ tt = "Bool"  -> Ok(VBool(self.v # ""))
      [] self.t = "List"  /\ tt = "Bool"  -> Ok(VBool(self.v # <<>>))
      [] self.t = "Map"   /\ tt = "Bool"  -> Ok(VBool(DOMAIN self.v # {}))
      [] OTHER -> Err(TypeMismatch(get_type(self), tt))

coerce(self, tt) ==
    CASE self.t = "Bool"  /\ tt = "Bool"  -> Ok(self)
      [] self.t = "Bool"  /\ tt = "Int"   -> Ok(VInt(IF self.v THEN 1 ELSE 0))
      [] self.t = "Int"   /\ tt = "Bool"  -> Ok(VBool(self.v # 0))
      [] self.t = "Int"   /\ tt = "Int"   -> Ok(self)
      [] self.t = "Int"   /\ tt = "Float" -> Ok(IntToFloat(self.v))
      [] self.t = "Float" /\ tt = "Int"   -> Ok(FloatToInt(self))
      [] self.t = "Float" /\ tt = "Float" -> Ok(self)
      [] self.t = "Str"   /\ tt = "Bool"  -> Ok(VBool(self.v # ""))
      [] self.t = "List"  /\ tt = "Bool"  -> Ok(VBool(self.v # <<>>))
      [] self.t = "Map"   /\ tt = "Bool"  -> Ok(VBool(DOMAIN self.v # {}))
      [] OTHER -> Err(TypeMismatch(get_type(self), tt))

abs(self) ==
    CASE self.t = "Int"   -> IntResult(AbsI(self.v))
      [] self.t = "Float" -> Ok(fabs(self))
      [] OTHER            -> Err(expected({"Int", "Float"}, self))

pow(self, other) ==
    CASE Both(self, other, "Int")   -> IntPow(self.v, other.v)
      [] Both(self, other, "Float") -> Ok(fpow(self, other))
      [] OTHER -> Err(type_mismatch(self, other))

min(self, other) ==
    CASE Both(self, other, "Int") ->
            Ok(VInt(IF other.v < self.v THEN other.v ELSE self.v))
      [] Both(self, other, "Float") ->
            Ok(IF IsNaN(self) THEN other
               ELSE IF IsNaN(other) THEN self
               ELSE IF flt(other, self) THEN other ELSE self)
      [] OTHER -> Err(type_mismatch(self, other))

max(self, other) ==
    CASE Both(self, other, "Int") ->
            Ok(VInt(IF other.v > self.v THEN other.v ELSE self.v))
      [] Both(self, other, "Float") ->
            Ok(IF IsNaN(self) THEN other
               ELSE IF IsNaN(other) THEN self
               ELSE IF flt(self, other) THEN other ELSE self)
      [] OTHER -> Err(type_mismatch(self, other))

add(self, other) ==
    CASE Both(self, other, "Int")   -> IntResult(self.v + other.v)
      [] Both(self, other, "Float") -> Ok(fadd(self, other))
      [] OTHER -> Err(type_mismatch(self, other))

sub(self, other) ==
    CASE Both(self, other, "Int")   -> IntResult(self.v - other.v)
      [] Both(self, other, "Float") -> Ok(fsub(self, other))
      [] OTHER -> Err(type_mismatch(self, other))

mul(self, other) ==
    CASE Both(self, other, "Int")   -> IntResult(self.v * other.v)
      [] Both(self, other, "Float") -> Ok(fmul(self, other))
      [] OTHER -> Err(type_mismatch(self, other))

\* Int / Int panics on a zero divisor and on MIN / -1 in every build.
div(self, other) ==
    CASE Both(self, other, "Int") ->
            IF other.v = 0 THEN Panic("attempt to divide by zero")
            ELSE IF self.v = IntMin /\ other.v = -1
            THEN Panic("attempt to divide with overflow")
            ELSE Ok(VInt(TruncDiv(self.v, other.v)))
      [] Both(self, other, "Float") -> Ok(fdiv(self, other))
      [] OTHER -> Err(type_mismatch(self, other))

modulo(self, other) ==
    CASE Both(self, other, "Int") ->
            IF other.v = 0
            THEN Panic("attempt to calculate the remainder with a divisor of zero")
            ELSE IF self.v = IntMin /\ other.v = -1
            THEN Panic("attempt to calculate the remainder with overflow")
            ELSE Ok(VInt(TruncRem(self.v, other.v)))
      [] Both(self, other, "Float") -> Ok(frem(self, other))
      [] OTHER -> Err(type_mismatch(self, other))

bitand(self, other) ==
    CASE Both(self, other, "Bool") -> Ok(VBool(self.v /\ other.v))
      [] Both(self, other, "Int")  -> Ok(IntBitwise("and", self.v, other.v))
      [] OTHER -> Err(type_mismatch(self, other))

bitor(self, other) ==
    CASE Both(self, other, "Bool") -> Ok(VBool(self.v \/ other.v))
      [] Both(self, other, "Int")  -> Ok(IntBitwise("or", self.v, other.v))
      [] OTHER -> Err(type_mismatch(self, other))

bitxor(self, other) ==
    CASE Both(self, other, "Bool") -> Ok(VBool(self.v # other.v))
      [] Both(self, other, "Int")  -> Ok(IntBitwise("xor", self.v, other.v))
      [] OTHER -> Err(type_mismatch(self, other))

shl(self, other) ==
    CASE Both(self, other, "Int") -> IntShift(TRUE, self.v, other.v)
      [] OTHER -> Err(type_mismatch(self, other))

shr(self, other) ==
    CASE Both(self, other, "Int") -> IntShift(FALSE, self.v, other.v)
      [] OTHER -> Err(type_mismatch(self, other))

not(self) ==
    CASE self.t = "Bool" -> Ok(VBool(~self.v))
      [] self.t = "Int"  -> Ok(VInt(-self.v - 1))
      [] OTHER           -> Err(expected({"Bool", "Int"}, self))

neg(self) ==
    CASE self.t = "Int"   -> IntResult(-self.v)
      [] self.t = "Float" -> Ok(fneg(self))
      [] OTHER            -> Err(expected({"Int", "Float"}, self))

lt(self, other) ==
    CASE Both(self, other, "Int")   -> Ok(VBool(self.v < other.v))
      [] Both(self, other, "Float") -> Ok(VBool(flt(self, other)))
      [] OTHER -> Err(type_mismatch(self, other))

gt(self, other) ==
    CASE Both(self, other, "Int")   -> Ok(VBool(self.v > other.v))
      [] Both(self, other, "Float") -> Ok(VBool(flt(other, self)))
      [] OTHER -> Err(type_mismatch(self, other))

lte(self, other) ==
    CASE Both(self, other, "Int")   -> Ok(VBool(self.v <= other.v))
      [] Both(self, other, "Float") ->
            Ok(VBool(flt(self, other) \/ feq(self, other)))
      [] OTHER -> Err(type_mismatch(self, other))

gte(self, other) ==
    CASE Both(self, other, "Int")   -> Ok(VBool(self.v >= other.v))
      [] Both(self, other, "Float") ->
            Ok(VBool(flt(other, self) \/ feq(self, other)))
      [] OTHER -> Err(type_mismatch(self, other))

RECURSIVE ValueEq(_, _)
\* The == that Value::eq applies to the payloads of a same-tag pair; a List
\* or a Map compares its elements with Value's PartialEq, which is
\* Value::eq again. A mixed-tag pair is false.
ValueEq(a, b) ==
    IF a.t # b.t THEN FALSE
    ELSE CASE a.t = "Float" -> feq(a, b)
           [] a.t = "List"  ->
                 /\ Len(a.v) = Len(b.v)
                 /\ \A i \in 1..Len(a.v) : ValueEq(a.v[i], b.v[i])
           [] a.t = "Map"   ->
                 /\ DOMAIN a.v = DOMAIN b.v
                 /\ \A key \in DOMAIN a.v : ValueEq(a.v[key], b.v[key])
           [] OTHER         -> a.v = b.v

\* A faulty eq that treats a mixed pair as the other operators do.
eq_strict(self, other) ==
    IF self.t # other.t THEN Err(type_mismatch(self, other))
    ELSE Ok(VBool(ValueEq(self, other)))

eq(self, other) == Ok(VBool(ValueEq(self, other)))

----------------------------------------------------------------------------
(* Opcodes, control flow, the program.                                     *)

LoadI(k)    == [op |-> "LoadI", k |-> k]
Load        == [op |-> "Load"]
Get         == [op |-> "Get"]
Coerce(tt)  == [op |-> "Coerce", tt |-> tt]
Binary(b)   == [op |-> "Binary", bop |-> b]
Unary(u)    == [op |-> "Unary", uop |-> u]
Call(n)     == [op |-> "Call", n |-> n]
Ret(n)      == [op |-> "Ret", n |-> n]
BranchTrue  == [op |-> "BranchTrue"]
BranchFalse == [op |-> "BranchFalse"]
Branch      == [op |-> "Branch"]
Drop(n)     == [op |-> "Drop", n |-> n]
Dup(n)      == [op |-> "Dup", n |-> n]
Arg(n)      == [op |-> "Arg", n |-> n]
Index       == [op |-> "Index"]
Dot         == [op |-> "Dot"]
Expect(tt)  == [op |-> "Expect", tt |-> tt]
Disp(ef)    == [op |-> "Disp", ef |-> ef]
Break       == [op |-> "Break"]
Halt        == [op |-> "Halt"]

BinOp == {"Add", "Sub", "Mul", "Div", "Mod", "Pow", "And", "Or", "Xor",
          "Lt", "Gt", "Lte", "Gte", "Eq", "Shl", "Shr", "Min", "Max"}
UnOp == {"Not", "Neg", "Abs"}
CairoOp == {"SetSourceRgb", "SetSourceRgba", "Rect", "Fill", "Stroke", "Paint"}

Advance     == [cf |-> "Advance"]
BranchTo(a) == [cf |-> "Branch", addr |-> a]
Yield(v)    == [cf |-> "Yield", value |-> v]

\* Program::fetch (sequences are 1-based, addresses 0-based).
\* A faulty fetch without the implicit Halt at the end of the code.
fetch_without_halt(index) ==
    IF index < Len(program.code) THEN Ok(program.code[index + 1])
    ELSE Err(IllegalAddr(index))

fetch(index) ==
    LET len == Len(program.code)
    IN IF index < len THEN Ok(program.code[index + 1])
       ELSE IF index = len THEN Err(HaltErr)
       ELSE Err(IllegalAddr(index))

\* Program::load
program_load(index) ==
    IF index < Len(program.data) THEN Ok(program.data[index + 1])
    ELSE Err(IllegalAddr(index))

----------------------------------------------------------------------------
(* The VM. A method takes the VM's mutable fields as a record m and        *)
(* returns the fields after the call with the value it returned.           *)

StackFrame(ra, fp, n) ==
    [return_address |-> ra, frame_pointer |-> fp, arity |-> n]

\* The fields as VM::new and the reset at the head of exec set them.
NewVM ==
    [stack |-> <<>>, call_stack |-> <<>>, cur_frame |-> StackFrame(0, 0, 0),
     pc |-> 0]

R(m, res) == [vm |-> m, res |-> res]

pop(m) ==
    IF m.stack # <<>>
    THEN R([m EXCEPT !.stack = SubSeq(m.stack, 1, Len(m.stack) - 1)],
           Ok(m.stack[Len(m.stack)]))
    ELSE R(m, Err(Underflow))

depth(m) == Len(m.stack)

\* A faulty push whose limit is off by one.
push_past_limit(m, v) ==
    IF Len(m.stack) <= capacity
    THEN R([m EXCEPT !.stack = Append(m.stack, v)], Ok(Advance))
    ELSE R(m, Err(Overflow))

push(m, v) ==
    IF Len(m.stack) < capacity
    THEN R([m EXCEPT !.stack = Append(m.stack, v)], Ok(Advance))
    ELSE R(m, Err(Overflow))

\* impl_try_into!: the payload of a value of the wanted variant.
try_into(v, tt) == IF v.t = tt THEN Ok(v.v) ELSE Err(expected({tt}, v))

pop_into(m, tt) ==
    LET p == pop(m)
    IN IF p.res.k # "Ok" THEN p ELSE R(p.vm, try_into(p.res.val, tt))

load_immediate(m, addr) ==
    LET l == program_load(addr)
    IN IF l.k # "Ok" THEN R(m, l)
       ELSE push(m, l.val)

load(m) ==
    LET p == pop(m)
    IN IF p.res.k # "Ok" THEN p
       ELSE IF p.res.val.t = "Addr" THEN load_immediate(p.vm, p.res.val.v)
       ELSE R(p.vm, Err(expected({"Addr"}, p.res.val)))

get(m, e) ==
    LET key == pop_into(m, "Str")
    IN IF key.res.k # "Ok" THEN key
       ELSE IF key.res.val \in DOMAIN e
       THEN R(key.vm, Ok(Yield(e[key.res.val])))
       ELSE R(key.vm, Err(KeyError(key.res.val)))

\* A Result<Value> turned into the Result<ControlFlow> that yields it.
Yielding(m, r) == IF r.k = "Ok" THEN R(m, Ok(Yield(r.val))) ELSE R(m, r)

binop(m, op) ==
    LET bb == pop(m)
        aa == pop(bb.vm)
        a == aa.res.val
        b == bb.res.val
    IN IF bb.res.k # "Ok" THEN bb
       ELSE IF aa.res.k # "Ok" THEN aa
       ELSE Yielding(aa.vm,
            CASE op = "Add" -> add(a, b)
              [] op = "Sub" -> sub(a, b)
              [] op = "Mul" -> mul(a, b)
              [] op = "Div" -> div(a, b)
              [] op = "Mod" -> modulo(a, b)
              [] op = "Pow" -> pow(a, b)
              [] op = "And" -> bitand(a, b)
              [] op = "Or"  -> bitor(a, b)
              [] op = "Xor" -> bitxor(a, b)
              [] op = "Lt"  -> lt(a, b)
              [] op = "Gt"  -> gt(a, b)
              [] op = "Lte" -> lte(a, b)
              [] op = "Gte" -> gte(a, b)
              [] op = "Eq"  -> eq(a, b)
              [] op = "Shl" -> shl(a, b)
              [] op = "Shr" -> shr(a, b)
              [] op = "Min" -> min(a, b)
              [] op = "Max" -> max(a, b))

unop(m, op) ==
    LET value == pop(m)
    IN IF value.res.k # "Ok" THEN value
       ELSE Yielding(value.vm,
            CASE op = "Not" -> not(value.res.val)
              [] op = "Neg" -> neg(value.res.val)
              [] op = "Abs" -> abs(value.res.val))

vm_coerce(m, tt) ==
    LET p == pop(m)
    IN IF p.res.k # "Ok" THEN p ELSE Yielding(p.vm, coerce(p.res.val, tt))

\* Push frame onto call stack, and branch. frame_pointer is computed with
\* an unsigned subtraction: with fewer than arity values on the stack it
\* panics when the build checks overflow and wraps otherwise; a wrapped
\* frame_pointer (2^64 - d) is written as the negative number -d.
call(m, arity) ==
    LET target == pop_into(m, "Addr")
        t == target.vm
        fp == Len(t.stack) - arity
    IN IF target.res.k # "Ok" THEN target
       ELSE IF fp < 0 /\ build = "debug"
       THEN R([t EXCEPT !.call_stack = Append(t.call_stack, t.cur_frame)],
              Panic("attempt to subtract with overflow"))
       ELSE R([t EXCEPT !.call_stack = Append(t.call_stack, t.cur_frame),
                        !.cur_frame = StackFrame(t.pc + 1, fp, arity)],
              Ok(BranchTo(target.res.val)))

\* A removal of the `arity` topmost values instead.
RemoveFromTop(stk, fp, arity) == SubSeq(stk, 1, Len(stk) - arity)

\* The stack after `arity` calls of Vec::remove(fp).
RemoveArgs(stk, fp, arity) ==
    SubSeq(stk, 1, fp) \o SubSeq(stk, fp + arity + 1, Len(stk))

\* A faulty ret that leaves the arguments on the stack.
ret_without_unwind(m, retvals) ==
    IF m.call_stack = <<>>
    THEN R(m, Panic("called Option::unwrap() on a None value"))
    ELSE R([m EXCEPT
              !.cur_frame = m.call_stack[Len(m.call_stack)],
              !.call_stack = SubSeq(m.call_stack, 1, Len(m.call_stack) - 1)],
           Ok(BranchTo(m.cur_frame.return_address)))

\* Return from subroutine. Vec::remove(fp) panics unless fp < len, the
\* assert! panics unless exactly retvals values are left above fp, and the
\* unwrap panics on an empty call stack.
ret(m, retvals) ==
    LET fp == m.cur_frame.frame_pointer
        target == m.cur_frame.return_address
        arity == m.cur_frame.arity
        removable == arity = 0 \/ (fp >= 0 /\ fp + arity <= Len(m.stack))
        removed == IF arity = 0 \/ ~removable THEN m
                   ELSE [m EXCEPT !.stack = RemoveArgs(m.stack, fp, arity)]
    IN IF ~removable
       THEN R(m, Panic("removal index out of bounds"))
       ELSE IF Len(removed.stack) # fp + retvals
       THEN R(removed, Panic("assertion failed"))
       ELSE IF removed.call_stack = <<>>
       THEN R(removed, Panic("called Option::unwrap() on a None value"))
       ELSE R([removed EXCEPT
                 !.cur_frame = m.call_stack[Len(m.call_stack)],
                 !.call_stack = SubSeq(m.call_stack, 1, Len(m.call_stack) - 1)],
              Ok(BranchTo(target)))

branch_true(m) ==
    LET target == pop_into(m, "Addr")
        cond == pop_into(target.vm, "Bool")
    IN IF target.res.k # "Ok" THEN target
       ELSE IF cond.res.k # "Ok" THEN cond
       ELSE R(cond.vm, Ok(IF cond.res.val THEN BranchTo(target.res.val)
                          ELSE Advance))

\* A faulty branch_false that branches on true.
branch_false_on_true(m) == branch_true(m)

branch_false(m) ==
    LET target == pop_into(m, "Addr")
        cond == pop_into(target.vm, "Bool")
    IN IF target.res.k # "Ok" THEN target
       ELSE IF cond.res.k # "Ok" THEN cond
       ELSE R(cond.vm, Ok(IF cond.res.val THEN Advance
                          ELSE BranchTo(target.res.val)))

branch(m) ==
    LET addr == pop_into(m, "Addr")
    IN IF addr.res.k # "Ok" THEN addr
       ELSE R(addr.vm, Ok(BranchTo(addr.res.val)))

RECURSIVE drop(_, _)
drop(m, n) ==
    IF n = 0 THEN R(m, Ok(Advance))
    ELSE LET p == pop(m)
         IN IF p.res.k # "Ok" THEN p ELSE drop(p.vm, n - 1)

RECURSIVE PushCopies(_, _, _)
PushCopies(m, v, n) ==
    IF n = 0 THEN R(m, Ok(Advance))
    ELSE LET p == push(m, v)
         IN IF p.res.k # "Ok" THEN p ELSE PushCopies(p.vm, v, n - 1)

\* Duplicate top of stack N times. n + 1 is computed in u8: for n = 255 it
\* panics when the build checks overflow and is 0 otherwise.
dup(m, n) ==
    LET top == pop(m)
    IN IF top.res.k # "Ok" THEN top
       ELSE IF n = 255
       THEN IF build = "debug"
            THEN R(top.vm, Panic("attempt to add with overflow"))
            ELSE R(top.vm, Ok(Advance))
       ELSE PushCopies(top.vm, top.res.val, n + 1)

\* Return argument relative to stack frame. With a wrapped (negative)
\* frame_pointer the sum wraps back into range when it is >= 0.
\* A faulty arg that counts from the top of the stack.
arg_from_top(m, n) ==
    IF n < m.cur_frame.arity
    THEN LET index == Len(m.stack) - m.cur_frame.arity + n
         IN IF index >= 0 /\ index < Len(m.stack)
            THEN R(m, Ok(Yield(m.stack[index + 1])))
            ELSE R(m, Err(Underflow))
    ELSE R(m, Err(Arity(n, m.cur_frame.arity)))

arg(m, n) ==
    IF n < m.cur_frame.arity
    THEN LET index == m.cur_frame.frame_pointer + n
         IN IF index >= 0 /\ index < Len(m.stack)
            THEN R(m, Ok(Yield(m.stack[index + 1])))
            ELSE R(m, Err(Underflow))
    ELSE R(m, Err(Arity(n, m.cur_frame.arity)))

\* A faulty index that pops the list before the index.
index_popping_list_first(m) ==
    LET list == pop_into(m, "List")
        i == pop_into(list.vm, "Addr")
    IN IF list.res.k # "Ok" THEN list
       ELSE IF i.res.k # "Ok" THEN i
       ELSE IF i.res.val < Len(list.res.val)
       THEN push(i.vm, list.res.val[i.res.val + 1])
       ELSE R(i.vm, Err(IndexError(i.res.val)))

index(m) ==
    LET i == pop_into(m, "Addr")
        list == pop_into(i.vm, "List")
    IN IF i.res.k # "Ok" THEN i
       ELSE IF list.res.k # "Ok" THEN list
       ELSE IF i.res.val < Len(list.res.val)
       THEN push(list.vm, list.res.val[i.res.val + 1])
       ELSE R(list.vm, Err(IndexError(i.res.val)))

dot(m) ==
    LET key == pop_into(m, "Str")
        map == pop_into(key.vm, "Map")
    IN IF key.res.k # "Ok" THEN key
       ELSE IF map.res.k # "Ok" THEN map
       ELSE IF key.res.val \in DOMAIN map.res.val
       THEN push(map.vm, map.res.val[key.res.val])
       ELSE R(map.vm, Err(KeyError(key.res.val)))

\* A faulty expect that consumes the value it checks.
expect_consuming(m, t) ==
    LET p == pop(m)
    IN IF p.res.k # "Ok" THEN p
       ELSE IF t = get_type(p.res.val) THEN R(p.vm, Ok(Advance))
       ELSE R(p.vm, Err(TypeError({t}, get_type(p.res.val))))

expect(m, t) ==
    IF m.stack # <<>>
    THEN LET tt == get_type(m.stack[Len(m.stack)])
         IN IF t = tt THEN R(m, Ok(Advance))
            ELSE R(m, Err(TypeError({t}, tt)))
    ELSE R(m, Err(Underflow))

\* What an effect record holds when the sink took no value.
NoValue == [t |-> "None"]

\* Output::output, the embedder's sink, which gets the VM handle.
\*   "pop":  the sinks of the tests (impl Output for Vec<Value>): pop one
\*           value and keep it.
\*   "push": a sink that uses the handle to push a value (VM::push is pub).
\*   "pop_float": a sink that takes its operand with vm.pop_into::<f64>()?
\*           (pop_into is pub), so that another variant is a TypeError.
output(ef, m, out) ==
    IF sink = "pop"
    THEN LET p == pop(m)
         IN IF p.res.k # "Ok" THEN [vm |-> p.vm, res |-> p.res, out |-> out]
            ELSE [vm |-> p.vm, res |-> Ok("()"),
                  out |-> Append(out, [ef |-> ef, val |-> p.res.val])]
    ELSE IF sink = "pop_float"
    THEN LET p == pop_into(m, "Float")
         IN IF p.res.k # "Ok" THEN [vm |-> p.vm, res |-> p.res, out |-> out]
            ELSE [vm |-> p.vm, res |-> Ok("()"),
                  out |-> Append(out, [ef |-> ef,
                                       val |-> m.stack[Len(m.stack)]])]
    ELSE LET p == push(m, VBool(TRUE))
         IN IF p.res.k # "Ok" THEN [vm |-> p.vm, res |-> p.res, out |-> out]
            ELSE [vm |-> p.vm, res |-> Ok("()"),
                  out |-> Append(out, [ef |-> ef, val |-> NoValue])]

\* A faulty disp that drops the value without calling the sink.
disp_without_output(m, ef, out) ==
    LET p == pop(m)
    IN [vm |-> p.vm,
        res |-> IF p.res.k # "Ok" THEN p.res ELSE Ok(Advance),
        out |-> out]

\* A faulty disp that advances whatever the sink returned.
disp_ignoring_sink(m, ef, out) ==
    LET o == output(ef, m, out)
    IN [vm |-> o.vm, res |-> Ok(Advance), out |-> o.out]

\* Emit the top of stack as output.
disp(m, ef, out) ==
    LET o == output(ef, m, out)
    IN IF o.res.k # "Ok" THEN o
       ELSE [vm |-> o.vm, res |-> Ok(Advance), out |-> o.out]

\* A method that does not touch the sink.
NoOut(r, out) == [vm |-> r.vm, res |-> r.res, out |-> out]

\* Dispatch table for built-in opcodes.
dispatch(m, op, e, out) ==
    CASE op.op = "LoadI"       -> NoOut(load_immediate(m, op.k), out)
      [] op.op = "Load"        -> NoOut(load(m), out)
      [] op.op = "Get"         -> NoOut(get(m, e), out)
      [] op.op = "Coerce"      -> NoOut(vm_coerce(m, op.tt), out)
      [] op.op = "Binary"      -> NoOut(binop(m, op.bop), out)
      [] op.op = "Unary"       -> NoOut(unop(m, op.uop), out)
      [] op.op = "Call"        -> NoOut(call(m, op.n), out)
      [] op.op = "Ret"         -> NoOut(ret(m, op.n), out)
      [] op.op = "BranchTrue"  -> NoOut(branch_true(m), out)
      [] op.op = "BranchFalse" -> NoOut(branch_false(m), out)
      [] op.op = "Branch"      -> NoOut(branch(m), out)
      [] op.op = "Drop"        -> NoOut(drop(m, op.n), out)
      [] op.op = "Dup"         -> NoOut(dup(m, op.n), out)
      [] op.op = "Arg"         -> NoOut(arg(m, op.n), out)
      [] op.op = "Index"       -> NoOut(index(m), out)
      [] op.op = "Dot"         -> NoOut(dot(m), out)
      [] op.op = "Expect"      -> NoOut(expect(m, op.tt), out)
      [] op.op = "Disp"        -> disp(m, op.ef, out)
      [] op.op = "Break"       -> NoOut(R(m, Err(DebugBreak)), out)
      [] op.op = "Halt"        -> NoOut(R(m, Err(HaltErr)), out)

\* A faulty step that advances pc before it pushes the yielded value.
ContinueAdvancingFirst(m, cf) ==
    CASE cf.cf = "Advance" -> R([m EXCEPT !.pc = m.pc + 1], Ok("()"))
      [] cf.cf = "Branch"  -> R([m EXCEPT !.pc = cf.addr], Ok("()"))
      [] cf.cf = "Yield"   -> push([m EXCEPT !.pc = m.pc + 1], cf.value)

\* What step does with the ControlFlow that dispatch returned.
Continue(m, cf) ==
    CASE cf.cf = "Advance" -> R([m EXCEPT !.pc = m.pc + 1], Ok("()"))
      [] cf.cf = "Branch"  -> R([m EXCEPT !.pc = cf.addr], Ok("()"))
      [] cf.cf = "Yield"   ->
            LET p == push(m, cf.value)
            IN IF p.res.k # "Ok" THEN p
               ELSE R([p.vm EXCEPT !.pc = m.pc + 1], Ok("()"))

Merge(c, out) == [vm |-> c.vm, res |-> c.res, out |-> out]

StepDispatched(d) ==
    IF d.res.k # "Ok" THEN d
    ELSE Merge(Continue(d.vm, d.res.val), d.out)

StepFetched(m, opcode, e, out) ==
    IF opcode.k # "Ok" THEN [vm |-> m, res |-> opcode, out |-> out]
    ELSE StepDispatched(dispatch(m, opcode.val, e, out))

\* Single-step the program.
step(m, e, out) == StepFetched(m, fetch(m.pc), e, out)

----------------------------------------------------------------------------
(* The loader: the external representation and its lowering.               *)

Program(code, data) == [code |-> code, data |-> data]

\* Insn
Op(opcode)     == [i |-> "Op", op |-> opcode]
Label(name)    == [i |-> "Label", name |-> name]
LabelRef(name) == [i |-> "LabelRef", name |-> name]
Val(value)     == [i |-> "Val", val |-> value]

\* A Map whose HashMap iterates its keys in the order ord. Each HashMap has
\* its own hasher state, so two maps with the same entries need not iterate
\* in the same order; Value's equality looks at the entries alone.
VMapIn(m, ord) == [t |-> "Map", v |-> m, ord |-> ord]

RECURSIVE DebugRepr(_)
\* format!("{:?}", value): the tag and the payload; a List prints its
\* elements in order, a Map prints its entries in iteration order.
DebugRepr(value) ==
    CASE value.t = "List" ->
            <<"List", [n \in 1..Len(value.v) |-> DebugRepr(value.v[n])]>>
      [] value.t = "Map" ->
            LET ord == IF "ord" \in DOMAIN value THEN value.ord ELSE <<>>
            IN <<"Map", [n \in 1..Len(ord) |->
                            <<ord[n], DebugRepr(value.v[ord[n]])>>]>>
      [] value.t = "Float" -> <<"Float", value.k, value.v>>
      [] OTHER -> <<value.t, value.v>>

RECURSIVE RemoveLabelsKeepingFirst(_, _, _)
\* A faulty first loop in which a name that is already in the table keeps
\* its first address.
RemoveLabelsKeepingFirst(rest, with_labels_removed, labels) ==
    IF rest = <<>>
    THEN [with_labels_removed |-> with_labels_removed, labels |-> labels]
    ELSE LET first == Head(rest)
         IN IF first.i = "Label"
            THEN RemoveLabelsKeepingFirst(Tail(rest), with_labels_removed,
                              labels
                                  @@ (first.name :> Len(with_labels_removed)))
            ELSE RemoveLabelsKeepingFirst(Tail(rest),
                              Append(with_labels_removed, first), labels)

RECURSIVE RemoveLabels(_, _, _)
\* The first loop of filter_labels: the instructions that are not labels,
\* and the table of the labels, each at the number of instructions kept
\* before it (a later definition of a name replaces an earlier one).
RemoveLabels(rest, with_labels_removed, labels) ==
    IF rest = <<>>
    THEN [with_labels_removed |-> with_labels_removed, labels |-> labels]
    ELSE LET first == Head(rest)
         IN IF first.i = "Label"
            THEN RemoveLabels(Tail(rest), with_labels_removed,
                              (first.name :> Len(with_labels_removed))
                                  @@ labels)
            ELSE RemoveLabels(Tail(rest), Append(with_labels_removed, first),
                              labels)

\* A faulty resolution in which a label stands for the instruction after
\* the one it precedes.
filter_labels_off_by_one(source) ==
    LET removed == RemoveLabels(source, <<>>, <<>>)
        kept == removed.with_labels_removed
        labels == removed.labels
    IN IF \E n \in 1..Len(kept) :
             kept[n].i = "LabelRef" /\ kept[n].name \notin DOMAIN labels
       THEN Panic("name error")
       ELSE Ok([n \in 1..Len(kept) |->
                  IF kept[n].i = "LabelRef"
                  THEN Val(VAddr(labels[kept[n].name] + 1))
                  ELSE kept[n]])

\* Convert labels to addresses. The expect panics on a reference to a name
\* that has no definition.
filter_labels(source) ==
    LET removed == RemoveLabels(source, <<>>, <<>>)
        kept == removed.with_labels_removed
        labels == removed.labels
    IN IF \E n \in 1..Len(kept) :
             kept[n].i = "LabelRef" /\ kept[n].name \notin DOMAIN labels
       THEN Panic("name error")
       ELSE Ok([n \in 1..Len(kept) |->
                  IF kept[n].i = "LabelRef"
                  THEN Val(VAddr(labels[kept[n].name]))
                  ELSE kept[n]])

\* The width of the pool index (u16).
PoolIndexBits == 16

\* data.len() as u16: the index a new literal is given.
PoolIndex(len) == len % (2 ^ PoolIndexBits)

\* The index that values holds for the key, or -1.
Existing(values, key) ==
    IF \E n \in 1..Len(values) : values[n].key = key
    THEN LET n == CHOOSE n \in 1..Len(values) : values[n].key = key
         IN values[n].index
    ELSE -1

RECURSIVE LowerSteps(_, _, _, _)
\* The loop of lower: an immediate value becomes a LoadI from a data cell,
\* one cell per distinct Debug string.
LowerSteps(rest, values, data, code) ==
    IF rest = <<>> THEN Program(code, data)
    ELSE LET first == Head(rest)
             str_repr == DebugRepr(first.val)
             existing == Existing(values, str_repr)
             cell == PoolIndex(Len(data))
         IN IF first.i = "Op"
            THEN LowerSteps(Tail(rest), values, data, Append(code, first.op))
            ELSE IF existing # -1
            THEN LowerSteps(Tail(rest), values, data,
                            Append(code, LoadI(existing)))
            ELSE LowerSteps(Tail(rest),
                            Append(values, [key |-> str_repr, index |-> cell]),
                            Append(data, first.val),
                            Append(code, LoadI(cell)))

\* Lower the external representation to the internal one.
lower(source) ==
    LET filtered == filter_labels(source)
    IN IF filtered.k # "Ok" THEN filtered
       ELSE Ok(LowerSteps(filtered.val, <<>>, <<>>, <<>>))

----------------------------------------------------------------------------
(* The lexical environment (src/src/env.rs): Env<T> is a stack of scopes,  *)
(* each a map from names to values; the innermost scope is the last.       *)

Some(x) == [k |-> "Some", val |-> x]
None == [k |-> "None"]

RECURSIVE env_get(_, _)
\* Look up an identifier from anywhere in our scope chain.
env_get(self, key) ==
    IF self = <<>> THEN None
    ELSE IF key \in DOMAIN self[Len(self)]
    THEN Some(self[Len(self)][key])
    ELSE env_get(SubSeq(self, 1, Len(self) - 1), key)

\* A faulty define that writes into the outermost scope.
define_in_outermost(self, key, value) ==
    IF self = <<>> THEN Panic("unwrap on None")
    ELSE Ok([self EXCEPT ![1] = (key :> value) @@ @])

\* Insert a value in the current scope. last_mut().unwrap() panics when
\* every scope has been ended.
define(self, key, value) ==
    IF self = <<>> THEN Panic("unwrap on None")
    ELSE Ok([self EXCEPT ![Len(self)] = (key :> value) @@ @])

RECURSIVE import(_, _)
\* Import the map of values into the current scope.
import(self, scope) ==
    IF scope = <<>> THEN Ok(self)
    ELSE LET defined == define(self, scope[1][1], scope[1][2])
         IN IF defined.k # "Ok" THEN defined
            ELSE import(defined.val, Tail(scope))

\* Begin a new scope.
begin(self) == Append(self, <<>>)

\* End the current scope (Vec::pop: nothing happens when there is none).
end(self) == IF self = <<>> THEN self ELSE SubSeq(self, 1, Len(self) - 1)

\* Env::new
env_new == begin(<<>>)

----------------------------------------------------------------------------
(* The type checker (src/src/typechecker.rs) over the surface AST          *)
(* (src/src/ast.rs). Its environment is the Env with root and chain, of    *)
(* which the repository holds only the callers: a checker's types is the   *)
(* chain of scopes from the root to its own scope, and every method        *)
(* returns, with its result, that chain as the call leaves it.             *)

\* ast::TypeTag
TUnit  == [tt |-> "Unit"]
TBool  == [tt |-> "Bool"]
TInt   == [tt |-> "Int"]
TFloat == [tt |-> "Float"]
TStr   == [tt |-> "Str"]
TPoint == [tt |-> "Point"]
TList(item)       == [tt |-> "List", item |-> item]
TMap(fields)      == [tt |-> "Map", fields |-> fields]
TLambda(args, ret_type) ==
    [tt |-> "Lambda", args |-> args, ret |-> ret_type]
TUnion(types)     == [tt |-> "Union", types |-> types]

\* ast::Expr; a literal is reduced to its variant, a Map lists its fields
\* in the order its HashMap iterates.
ExprLit(variant)     == [e |-> variant]
ExprList(items)      == [e |-> "List", items |-> items]
ExprMap(items)       == [e |-> "Map", items |-> items]
ExprId(name)         == [e |-> "Id", name |-> name]
ExprDot(obj, key)    == [e |-> "Dot", obj |-> obj, key |-> key]
ExprIndex(lst, i)    == [e |-> "Index", lst |-> lst, index |-> i]
ExprCond(cases)      == [e |-> "Cond", cases |-> cases]
ExprBlock(stmts, ret_expr) ==
    [e |-> "Block", stmts |-> stmts, ret |-> ret_expr]
ExprBinOp(op, l, r)  == [e |-> "BinOp", op |-> op, l |-> l, r |-> r]
ExprUnOp(op, operand) == [e |-> "UnOp", op |-> op, operand |-> operand]
ExprCall(func, args) == [e |-> "Call", func |-> func, args |-> args]
ExprLambda(args, ret_type, body) ==
    [e |-> "Lambda", args |-> args, ret |-> ret_type, body |-> body]

\* ast::Statement, as check_statement matches it.
ExprForEffect(body)   == [s |-> "ExprForEffect", body |-> body]
Emit(op, exprs)       == [s |-> "Emit", op |-> op, exprs |-> exprs]
Def(name, val)        == [s |-> "Def", name |-> name, val |-> val]
ListIter(iter, lst, body) ==
    [s |-> "ListIter", iter |-> iter, lst |-> lst, body |-> body]
MapIter(key, value, map, body) ==
    [s |-> "MapIter", key |-> key, value |-> value, map |-> map,
     body |-> body]
While(cond, body)     == [s |-> "While", cond |-> cond, body |-> body]
Guard(clauses, default) ==
    [s |-> "Guard", clauses |-> clauses, default |-> default]

\* typechecker::TypeError
Mismatch(a, b)        == [e |-> "Mismatch", a |-> a, b |-> b]
NotAList(t)           == [e |-> "NotAList", t |-> t]
NotAMap(t)            == [e |-> "NotAMap", t |-> t]
Undefined(name)       == [e |-> "Undefined", name |-> name]
ListIndexMustBeInt(t) == [e |-> "ListIndexMustBeInt", t |-> t]
FieldError(fields, name) == [e |-> "KeyError", fields |-> fields, name |-> name]
NotIterable(t)        == [e |-> "NotIterable", t |-> t]
NotCallable(t)        == [e |-> "NotCallable", t |-> t]
ArgError(args, formals) == [e |-> "ArgError", args |-> args, formals |-> formals]

\* Env::root() and Env::chain(parent): an empty root, and a child with an
\* empty scope of its own on top of the parent's chain.
root == env_new
chain(parent) == begin(parent)

\* The parent's chain as it is once the child made from it is dropped.
Unchained(parent, child) == SubSeq(child, 1, Len(parent))

\* A TypeExpr or TypeCheck with the checker's types after the call.
TC(res, types) == [res |-> res, types |-> types]

RECURSIVE Dedup(_)
\* Vec::dedup: of each run of equal neighbours the first is kept.
Dedup(types) ==
    IF Len(types) <= 1 THEN types
    ELSE LET init == Dedup(SubSeq(types, 1, Len(types) - 1))
             last == types[Len(types)]
         IN IF init[Len(init)] = last THEN init ELSE Append(init, last)

\* Return the narrowest representation of the given set of types.
narrow(types) ==
    LET deduped == Dedup(types)
    IN CASE Len(deduped) = 0 -> TUnit
         [] Len(deduped) = 1 -> deduped[1]
         [] OTHER -> TUnion(deduped)

\* Return the type of the given field in a map.
lookup(fields, name) ==
    IF name \in DOMAIN fields THEN Ok(fields[name])
    ELSE Err(FieldError(fields, name))

\* map_to_seq: the values in the order the HashMap iterates, which is any
\* order of its keys; checker.order is the one of this run.
map_to_seq(items) ==
    LET InMap(key) == key \in DOMAIN items
        keys == SelectSeq(checker.order, InMap)
    IN [i \in DOMAIN keys |-> items[keys[i]]]

RECURSIVE eval_expr(_, _)
RECURSIVE check_statement(_, _)

RECURSIVE EvalAll(_, _, _)
\* items.iter().map(|v| self.eval_expr(v)).collect(): the types of the
\* items, or the first error (nothing after it is evaluated).
EvalAll(self, items, done) ==
    IF items = <<>> THEN TC(Ok(done), self)
    ELSE LET first == eval_expr(self, Head(items))
         IN IF first.res.k # "Ok" THEN first
            ELSE EvalAll(first.types, Tail(items), Append(done, first.res.val))

eval_list(self, items) ==
    LET all == EvalAll(self, items, <<>>)
    IN IF all.res.k # "Ok" THEN all
       ELSE TC(Ok(TList(narrow(all.res.val))), all.types)

eval_map(self, items) ==
    LET all == EvalAll(self, [i \in DOMAIN items |-> items[i][2]], <<>>)
        keys == {items[i][1] : i \in DOMAIN items}
        at(key) == CHOOSE i \in DOMAIN items :
                      /\ items[i][1] = key
                      /\ \A j \in DOMAIN items : items[j][1] = key => j <= i
    IN IF all.res.k # "Ok" THEN all
       ELSE TC(Ok(TMap([key \in keys |-> all.res.val[at(key)]])), all.types)

eval_id(self, name) ==
    LET value == env_get(self, name)
    IN IF value.k = "Some" THEN TC(Ok(value.val), self)
       ELSE TC(Err(Undefined(name)), self)

eval_dot(self, obj, field) ==
    LET o == eval_expr(self, obj)
    IN IF o.res.k # "Ok" THEN o
       ELSE IF o.res.val.tt = "Map"
       THEN TC(lookup(o.res.val.fields, field), o.types)
       ELSE TC(Err(NotAMap(o.res.val)), o.types)

RECURSIVE CheckAll(_, _)
\* for stmt in stmts { sub.check_statement(stmt)? }
CheckAll(self, stmts) ==
    IF stmts = <<>> THEN TC(Ok("()"), self)
    ELSE LET first == check_statement(self, Head(stmts))
         IN IF first.res.k # "Ok" THEN first
            ELSE CheckAll(first.types, Tail(stmts))

\* eval_block without a scope of its own: the statements are checked in
\* the enclosing one.
eval_block_in_enclosing_scope(self, stmts, ret_expr) ==
    LET checked == CheckAll(self, stmts)
        value == eval_expr(checked.types, ret_expr)
    IN IF checked.res.k # "Ok" THEN checked ELSE value

eval_block(self, stmts, ret_expr) ==
    LET child == chain(self)
        checked == CheckAll(child, stmts)
        value == eval_expr(checked.types, ret_expr)
    IN IF checked.res.k # "Ok"
       THEN TC(checked.res, Unchained(self, checked.types))
       ELSE TC(value.res, Unchained(self, value.types))

eval_index(self, lst, idx) ==
    LET l == eval_expr(self, lst)
        i == eval_expr(l.types, idx)
    IN IF l.res.k # "Ok" THEN l
       ELSE IF i.res.k # "Ok" THEN i
       ELSE IF i.res.val = TInt
       THEN IF l.res.val.tt = "List"
            THEN TC(Ok(l.res.val.item), i.types)
            ELSE TC(Err(NotAList(l.res.val)), i.types)
       ELSE TC(Err(ListIndexMustBeInt(i.res.val)), i.types)

eval_cond(self, cases) ==
    LET conds == EvalAll(self, [i \in DOMAIN cases |-> cases[i][1]], <<>>)
        wrong == {i \in DOMAIN conds.res.val : conds.res.val[i] # TBool}
        exprs == EvalAll(conds.types, [i \in DOMAIN cases |-> cases[i][2]],
                         <<>>)
    IN IF conds.res.k # "Ok" THEN conds
       ELSE IF wrong # {}
       THEN LET i == CHOOSE i \in wrong : \A j \in wrong : i <= j
            IN TC(Err(Mismatch(conds.res.val[i], TBool)), exprs.types)
       ELSE IF exprs.res.k # "Ok" THEN exprs
       ELSE TC(Ok(narrow(exprs.res.val)), exprs.types)

\* eval_binop with (Str, Str) giving Str.
eval_binop_strs_to_str(self, op, l, r) ==
    LET ltype == eval_expr(self, l)
        rtype == eval_expr(ltype.types, r)
        a == ltype.res.val
        b == rtype.res.val
    IN IF ltype.res.k # "Ok" THEN ltype
       ELSE IF rtype.res.k # "Ok" THEN rtype
       ELSE TC(IF op = "Eq" /\ a = b THEN Ok(a)
               ELSE IF a = TBool /\ b = TBool THEN Ok(TBool)
               ELSE IF a = TInt /\ b = TInt THEN Ok(TInt)
               ELSE IF a = TFloat /\ b = TFloat THEN Ok(TFloat)
               ELSE IF a = TStr /\ b = TStr THEN Ok(TStr)
               ELSE Err(Mismatch(a, b)),
               rtype.types)

\* The arms of the match are tried in order.
eval_binop(self, op, l, r) ==
    LET ltype == eval_expr(self, l)
        rtype == eval_expr(ltype.types, r)
        a == ltype.res.val
        b == rtype.res.val
    IN IF ltype.res.k # "Ok" THEN ltype
       ELSE IF rtype.res.k # "Ok" THEN rtype
       ELSE TC(IF op = "Eq" /\ a = b THEN Ok(a)
               ELSE IF a = TBool /\ b = TBool THEN Ok(TBool)
               ELSE IF a = TInt /\ b = TInt THEN Ok(TInt)
               ELSE IF a = TFloat /\ b = TFloat THEN Ok(TFloat)
               ELSE IF a = TStr /\ b = TStr THEN Ok(TFloat)
               ELSE Err(Mismatch(a, b)),
               rtype.types)

eval_unop(self, op, operand) ==
    LET o == eval_expr(self, operand)
        type_ == o.res.val
        numeric == TUnion(<<TInt, TFloat>>)
    IN IF o.res.k # "Ok" THEN o
       ELSE TC(IF op = "Not"
               THEN IF type_ = TBool THEN Ok(TBool)
                    ELSE Err(Mismatch(type_, TBool))
               ELSE IF type_ = TInt THEN Ok(TInt)
               ELSE IF type_ = TFloat THEN Ok(TFloat)
               ELSE Err(Mismatch(type_, numeric)),
               o.types)

eval_call(self, func, args) ==
    LET f == eval_expr(self, func)
        a == EvalAll(f.types, args, <<>>)
    IN IF f.res.k # "Ok" THEN f
       ELSE IF a.res.k # "Ok" THEN a
       ELSE IF f.res.val.tt = "Lambda"
       THEN IF a.res.val = a.res.val
            THEN TC(Ok(f.res.val.ret), a.types)
            ELSE TC(Err(ArgError(a.res.val, f.res.val.args)), a.types)
       ELSE TC(Err(NotCallable(f.res.val)), a.types)

\* eval_lambda without env.import(args): the body sees no formals.
eval_lambda_without_formals(self, args, ret_type, body) ==
    LET body_type == eval_expr(chain(self), body)
    IN IF body_type.res.k # "Ok"
       THEN TC(body_type.res, Unchained(self, body_type.types))
       ELSE IF body_type.res.val = ret_type
       THEN TC(Ok(TLambda([i \in DOMAIN args |-> args[i][2]], ret_type)),
               Unchained(self, body_type.types))
       ELSE TC(Err(Mismatch(ret_type, body_type.res.val)),
               Unchained(self, body_type.types))

eval_lambda(self, args, ret_type, body) ==
    LET child == import(chain(self), args).val
        body_type == eval_expr(child, body)
    IN IF body_type.res.k # "Ok"
       THEN TC(body_type.res, Unchained(self, body_type.types))
       ELSE IF body_type.res.val = ret_type
       THEN TC(Ok(TLambda([i \in DOMAIN args |-> args[i][2]], ret_type)),
               Unchained(self, body_type.types))
       ELSE TC(Err(Mismatch(ret_type, body_type.res.val)),
               Unchained(self, body_type.types))

eval_expr(self, expr) ==
    CASE expr.e \in {"Unit", "Bool", "Int", "Float", "Str", "Point"} ->
            TC(Ok([tt |-> expr.e]), self)
      [] expr.e = "List"   -> eval_list(self, expr.items)
      [] expr.e = "Map"    -> eval_map(self, expr.items)
      [] expr.e = "Id"     -> eval_id(self, expr.name)
      [] expr.e = "Dot"    -> eval_dot(self, expr.obj, expr.key)
      [] expr.e = "Index"  -> eval_index(self, expr.lst, expr.index)
      [] expr.e = "Cond"   -> eval_cond(self, expr.cases)
      [] expr.e = "Block"  -> eval_block(self, expr.stmts, expr.ret)
      [] expr.e = "BinOp"  -> eval_binop(self, expr.op, expr.l, expr.r)
      [] expr.e = "UnOp"   -> eval_unop(self, expr.op, expr.operand)
      [] expr.e = "Call"   -> eval_call(self, expr.func, expr.args)
      [] expr.e = "Lambda" ->
            eval_lambda(self, expr.args, expr.ret, expr.body)

\* Check whether expr is a list, and return the item type.
is_list(self, expr) ==
    LET r == eval_expr(self, expr)
    IN IF r.res.k # "Ok" THEN r
       ELSE IF r.res.val.tt = "List" THEN TC(Ok(r.res.val.item), r.types)
       ELSE TC(Err(NotIterable(r.res.val)), r.types)

\* Check whether expr is a map, return the union over all the value types.
is_map(self, expr) ==
    LET r == eval_expr(self, expr)
    IN IF r.res.k # "Ok" THEN r
       ELSE IF r.res.val.tt = "Map"
       THEN TC(Ok(narrow(map_to_seq(r.res.val.fields))), r.types)
       ELSE TC(Err(NotIterable(r.res.val)), r.types)

\* is_bool and is_unit: the expression has the wanted type.
IsOfType(self, expr, wanted) ==
    LET r == eval_expr(self, expr)
    IN IF r.res.k # "Ok" THEN r
       ELSE IF r.res.val = wanted THEN TC(Ok("()"), r.types)
       ELSE TC(Err(Mismatch(r.res.val, wanted)), r.types)

is_bool(self, expr) == IsOfType(self, expr, TBool)
is_unit(self, expr) == IsOfType(self, expr, TUnit)

RECURSIVE CheckClauses(_, _)
\* for clause in clauses { is_bool(pred)?; check_statement(body)? }
CheckClauses(self, clauses) ==
    IF clauses = <<>> THEN TC(Ok("()"), self)
    ELSE LET pred == is_bool(self, clauses[1][1])
             body == check_statement(pred.types, clauses[1][2])
         IN IF pred.res.k # "Ok" THEN pred
            ELSE IF body.res.k # "Ok" THEN body
            ELSE CheckClauses(body.types, Tail(clauses))

check_statement(self, stmt) ==
    CASE stmt.s = "ExprForEffect" -> is_unit(self, stmt.body)
      [] stmt.s = "Emit" ->
            LET all == EvalAll(self, stmt.exprs, <<>>)
            IN IF all.res.k # "Ok" THEN all ELSE TC(Ok("()"), all.types)
      [] stmt.s = "Def" ->
            LET val == eval_expr(self, stmt.val)
            IN IF val.res.k # "Ok" THEN val
               ELSE TC(Ok("()"), define(val.types, stmt.name, val.res.val).val)
      [] stmt.s = "ListIter" ->
            LET item == is_list(self, stmt.lst)
                scoped ==
                    define(chain(item.types), stmt.iter, item.res.val).val
                body == check_statement(scoped, stmt.body)
            IN IF item.res.k # "Ok" THEN item
               ELSE TC(body.res, Unchained(item.types, body.types))
      [] stmt.s = "MapIter" ->
            LET item == is_map(self, stmt.map)
                keyed == define(chain(item.types), stmt.key, TStr).val
                scoped == define(keyed, stmt.value, item.res.val).val
                body == check_statement(scoped, stmt.body)
            IN IF stmt.key = stmt.value
               THEN TC(Panic("cannot be the same"), self)
               ELSE IF item.res.k # "Ok" THEN item
               ELSE TC(body.res, Unchained(item.types, body.types))
      [] stmt.s = "While" ->
            LET cond == is_bool(self, stmt.cond)
            IN IF cond.res.k # "Ok" THEN cond
               ELSE check_statement(cond.types, stmt.body)
      [] stmt.s = "Guard" ->
            LET clauses == CheckClauses(self, stmt.clauses)
            IN IF clauses.res.k # "Ok" THEN clauses
               ELSE IF stmt.default = None THEN clauses
               ELSE check_statement(clauses.types, stmt.default.val)

----------------------------------------------------------------------------
(* Inputs: programs, environments, capacities.                             *)

SeqsUpTo(S, n) == UNION {[1..k -> S] : k \in 0..n}

\* Every program of at most MaxLen opcodes over this alphabet and pool.
ShortData == <<VInt(1), VInt(0), VAddr(0), VBool(TRUE)>>

ShortOps ==
    {LoadI(0), LoadI(1), LoadI(2), LoadI(3), Binary("Div"), Call(1), Ret(1),
     BranchTrue, Branch, Dup(1), Arg(0), Disp("Rect"), Break, Halt}

ShortPrograms == {Program(c, ShortData) : c \in SeqsUpTo(ShortOps, MaxLen)}

\* tests::test_simple
TestSimple ==
    Program(<<LoadI(0), LoadI(1), Binary("Add")>>, <<VInt(1), VInt(2)>>)

\* tests::test_branch: the four programs differ in the Bool and the branch.
TestBranch(b, br) ==
    Program(<<LoadI(0), LoadI(1), LoadI(2), br, LoadI(3), LoadI(4), Branch,
              LoadI(5), Binary("Add")>>,
            <<VInt(100), VBool(b), VAddr(7), VInt(10), VAddr(8), VInt(5)>>)

\* tests::test_call_ret: ftoc(212), and a call of arity 0.
TestCallRet1 ==
    Program(<<LoadI(0), Branch, Arg(0), LoadI(1), Binary("Sub"), LoadI(2),
              Binary("Mul"), LoadI(3), Binary("Div"), Ret(1), LoadI(4),
              LoadI(5), Call(1)>>,
            <<VAddr(10), VInt(32), VInt(5), VInt(9), VInt(212), VAddr(2)>>)

TestCallRet2 ==
    Program(<<LoadI(0), LoadI(1), Call(0), Halt, Ret(0)>>,
            <<VInt(100), VAddr(4)>>)

\* tests::test_recursion: fact(n)
TestRecursion(n) ==
    Program(<<LoadI(0), Branch, Arg(0), LoadI(1), Binary("Lte"), LoadI(2),
              BranchFalse, Arg(0), Ret(1), Arg(0), Arg(0), LoadI(3),
              Binary("Sub"), LoadI(4), Call(1), Binary("Mul"), Ret(1),
              LoadI(5), LoadI(4), Call(1)>>,
            <<VAddr(17), VInt(2), VAddr(9), VInt(1), VAddr(2), VInt(n)>>)

\* tests::test_binary_recursion: fib(n)
TestBinaryRecursion(n) ==
    Program(<<LoadI(0), Branch, Arg(0), LoadI(1), Binary("Lte"), LoadI(2),
              BranchFalse, Arg(0), Ret(1), Arg(0), LoadI(3), Binary("Sub"),
              LoadI(4), Call(1), Arg(0), LoadI(1), Binary("Sub"), LoadI(4),
              Call(1), Binary("Add"), Ret(1), LoadI(5), LoadI(4), Call(1)>>,
            <<VAddr(21), VInt(1), VAddr(9), VInt(2), VAddr(2), VInt(n)>>)

\* tests::test_drop, test_dup, test_break
TestDrop ==
    Program(<<LoadI(0), LoadI(1), LoadI(2), Drop(1), Binary("Add")>>,
            <<VInt(40), VInt(2), VInt(100)>>)

TestDup == Program(<<LoadI(0), Dup(1), Binary("Add")>>, <<VInt(21)>>)

TestBreak == Program(<<LoadI(0), Break>>, <<VInt(42)>>)

\* tests::test_disp
TestDisp ==
    Program(<<LoadI(0), Disp("Rect"), LoadI(1), Disp("Rect"), LoadI(2),
              Disp("Rect")>>,
            <<VInt(1), VBool(TRUE), VFloat(FloatDen)>>)

\* tests::test_get
TestGet(key) == Program(<<LoadI(0), Get>>, <<VStr(key)>>)

\* Two-argument calls, nested: main calls f(7, 8); f pushes and drops a
\* value, calls g(arg 1, 9), and returns g's result and its own arg 0;
\* g returns the sum of its arguments.
NestedCalls ==
    Program(<<LoadI(0), Branch,
              \* 2: f
              LoadI(3), Drop(1), Arg(1), LoadI(4), LoadI(5), Call(2),
              Arg(0), Ret(2),
              \* 10: g
              Arg(0), Arg(1), Binary("Add"), Ret(1),
              \* 14: main
              LoadI(6), LoadI(1), LoadI(2), LoadI(7), Call(2), Binary("Add")>>,
            <<VAddr(14), VInt(7), VInt(8), VInt(5), VInt(9), VAddr(10),
              VInt(100), VAddr(2)>>)

\* A loop that emits an effect on every turn, and a subroutine that calls
\* itself without end.
DispLoop ==
    Program(<<LoadI(0), Disp("Fill"), LoadI(1), Branch>>,
            <<VInt(1), VAddr(0)>>)

EndlessCall == Program(<<LoadI(0), Call(0)>>, <<VAddr(0)>>)

\* Branches to the end of the code and past it.
BranchTarget(a) == Program(<<LoadI(0), Branch, Break>>, <<VAddr(a)>>)

\* A subroutine that reads its argument once more than fits above it on
\* the largest of the small stacks.
ArgFill ==
    Program(<<LoadI(0), LoadI(1), Call(1)>> \o [i \in 1..MaxCap |-> Arg(0)],
            <<VInt(7), VAddr(3)>>)

TestPrograms ==
    {TestSimple, TestCallRet1, TestCallRet2, TestDrop, TestDup, TestBreak,
     TestDisp, NestedCalls, DispLoop, EndlessCall, ArgFill}
    \cup {TestBranch(b, br) : b \in BOOLEAN, br \in {BranchTrue, BranchFalse}}
    \cup {TestRecursion(n) : n \in 1..MaxArg}
    \cup {TestBinaryRecursion(n) : n \in 0..MaxArg}
    \cup {TestGet(key) : key \in {"foo", "bar"}}
    \cup {BranchTarget(a) : a \in 2..4}

\* Operands of every variant: the extremes of Int, a NaN, an infinity, a
\* negative non-integral Float, empty and non-empty containers.
OpValues ==
    {VBool(TRUE), VBool(FALSE),
     VInt(IntMin), VInt(-3), VInt(-1), VInt(0), VInt(1), VInt(2),
     VInt(IntBits - 1), VInt(IntMax),
     VFloat(0), VFloat(1), VFloat(-(FloatDen + 1)), VFloatNaN,
     VFloatInf(FALSE),
     VStr(""), VStr("a"), VList(<<>>), VList(<<VInt(1)>>),
     VMap(<<>>), VMap([a |-> VInt(1)]), VAddr(0), VAddr(1)}

\* tests::test_binary, tests::test_unary
TestBinary(op, a, b) ==
    Program(<<LoadI(0), LoadI(1), Binary(op)>>, <<a, b>>)

TestUnary(op, value) == Program(<<LoadI(0), Unary(op)>>, <<value>>)

\* tests::test_coerce, tests::test_expect
TestCoerce(value, tt) == Program(<<LoadI(0), Coerce(tt)>>, <<value>>)

TestExpect(value, tt) == Program(<<LoadI(0), Expect(tt)>>, <<value>>)

TestExpectEmpty(tt) == Program(<<Expect(tt)>>, <<>>)

\* The largest operand of an opcode (u8).
U8Max == 255

\* tests::test_dup without the addition, for the counts that fit, the
\* first that does not, and the largest two; and a Dup on an empty stack.
DupCounts == 0..MaxCap \cup {U8Max - 1, U8Max}
TestDupOf(value, n) == Program(<<LoadI(0), Dup(n)>>, <<value>>)
TestDupEmpty(n) == Program(<<Dup(n)>>, <<>>)

\* tests::test_index, over every pair of operands, a list of two and an
\* address past it among them.
TestIndex(list, i) == Program(<<LoadI(0), LoadI(1), Index>>, <<list, i>>)
IndexValues == OpValues \cup {VList(<<VInt(1), VStr("a")>>), VAddr(2)}

OpPrograms ==
    {TestBinary(op, a, b) : op \in BinOp, a \in OpValues, b \in OpValues}
    \cup {TestUnary(op, a) : op \in UnOp, a \in OpValues}
    \cup {TestCoerce(a, tt) : a \in OpValues, tt \in TypeTag}
    \cup {TestExpect(a, tt) : a \in OpValues, tt \in TypeTag}
    \cup {TestExpectEmpty(tt) : tt \in TypeTag}
    \cup {TestDupOf(a, n) : a \in {VInt(1), VStr("a")}, n \in DupCounts}
    \cup {TestDupEmpty(n) : n \in DupCounts}
    \cup {TestIndex(a, b) : a \in IndexValues, b \in IndexValues}

\* tests::test_branch as the text it was assembled from:
\*   100 <b> #tgt <br> 10 #end ba tgt: 5 end: +
TestBranchSource(b, br) ==
    <<Val(VInt(100)), Val(VBool(b)), LabelRef("tgt"), Op(br), Val(VInt(10)),
      LabelRef("end"), Op(Branch), Label("tgt"), Val(VInt(5)), Label("end"),
      Op(Binary("Add"))>>

\* A label defined twice, at addresses 1 and 3, with a reference before,
\* between and after the definitions; and one defined three times.
TwiceDefined ==
    <<LabelRef("a"), Label("a"), Val(VInt(1)), LabelRef("a"), Label("a"),
      LabelRef("a")>>
ThriceDefined ==
    <<Label("a"), Op(Branch), Label("a"), LabelRef("a"), Label("a")>>

TestSources ==
    {TestBranchSource(b, br) : b \in BOOLEAN, br \in {BranchTrue, BranchFalse}}
        \cup {TwiceDefined, ThriceDefined}

\* Two maps with the same two entries, which iterate in different orders.
MapAB == [a |-> VInt(1), b |-> VInt(2)]
MapInOrderAB == VMapIn(MapAB, <<"a", "b">>)
MapInOrderBA == VMapIn(MapAB, <<"b", "a">>)

\* Every instruction list of at most MaxSrc instructions over literals
\* that differ in tag alone (Int 1, Float 1.0, Addr 1), the two maps, two
\* labels with their references, and an opcode.
SourceInsns ==
    {Val(VInt(1)), Val(VFloat(FloatDen)), Val(VAddr(1)), Val(MapInOrderAB),
     Val(MapInOrderBA), Label("a"), LabelRef("a"), Label("b"), LabelRef("b"),
     Op(Branch)}

ShortSources == SeqsUpTo(SourceInsns, MaxSrc)

\* The stack limit of the tests that recurse.
TestCap == 25

Capacities == 0..MaxCap \cup {TestCap}

\* tests::test_get's environment, and the empty one.
EmptyEnv == [key \in {} |-> NoValue]
TestEnv == [foo |-> VStr("bar")]
\* Env is HashMap<String, Value>: the embedder may bind a key to any Value.
EnvWithAddr == [foo |-> VAddr(1)]

Builds == {"debug", "release"}
Sinks == {"pop", "push", "pop_float"}

----------------------------------------------------------------------------
(* The state machine: an embedder that constructs a VM and calls exec and   *)
(* step on it.                                                             *)

VM == [stack |-> stack, call_stack |-> call_stack, cur_frame |-> cur_frame,
       pc |-> pc]

NoResult == [k |-> "None"]
NoStep == [op |-> NoResult]

\* History of the current invocation:
\*   last     the state before the last step, what it fetched and returned
\*   frames   per active call: the depth below its arguments, their number,
\*            the arguments, the call stack depth and the current frame
\*            as they were at the Call, and the index of the Call
\*   returned the entry of frames that the last step's Ret ended
\*   disp     the Disp opcodes executed, with the top of stack at the time
\*   via      "exec" or "step": the call that made the last step
\*   fresh    no exec or step has run since VM::new
\*   began_fresh, ref, dirty: the outcome of the exec calls begun on a
\*            fresh VM and on a used one
\*   began_nested: the last exec on a used VM began inside a call
NewHist ==
    [last |-> NoStep, frames |-> <<>>, returned |-> NoResult, disp |-> <<>>,
     via |-> "none", fresh |-> TRUE, began_fresh |-> FALSE, ref |-> NoResult,
     dirty |-> NoResult, began_nested |-> FALSE]

HasDisp(p) == \E i \in 1..Len(p.code) : p.code[i].op = "Disp"
HasGet(p) == \E i \in 1..Len(p.code) : p.code[i].op = "Get"

\* The VM as VM::new leaves it.
InitVM ==
    /\ stack = NewVM.stack
    /\ call_stack = NewVM.call_stack
    /\ cur_frame = NewVM.cur_frame
    /\ pc = NewVM.pc
    /\ result = NoResult
    /\ effects = <<>>
    /\ hist = NewHist

\* Nothing but the VM and the loader's lists is in use.
NoPool == [distinct |-> 0, at |-> 0, lowered |-> FALSE, data_len |-> 0,
           index |-> -1]
NoScopes == [stack |-> <<>>, got |-> NoResult, begun |-> <<>>,
             restored |-> NoResult, panicked |-> FALSE]
NoChecker == [types |-> <<>>, ast |-> NoResult, returned |-> NoResult,
              before |-> <<>>, order |-> <<>>, at |-> 0]
\* A ReadSource: the String behind the line mutex ("" or a complete input
\* line), the thread that holds the mutex, where the reader thread and the
\* thread inside get_state are, what get_state returned last, and the
\* lines read since the current call began to wait on the condvar (ghost).
NoSource == [line |-> "", owner |-> "none", reader |-> "unspawned",
             caller |-> "idle", got |-> NoResult, since |-> 0, took |-> 0]
VMOnly ==
    /\ pool = NoPool /\ scopes = NoScopes /\ checker = NoChecker
    /\ read_source = NoSource

\* A Program built by the embedder, and one still to be lowered from one
\* of the given instruction lists.
Built(programs) ==
    program \in programs /\ insns = <<>> /\ mode = "idle"

Sourced(sources) ==
    insns \in sources /\ program = Program(<<>>, <<>>) /\ mode = "source"

Init ==
    /\ Built(ShortPrograms \cup TestPrograms) \/ Sourced(TestSources)
    /\ capacity \in Capacities
    /\ env \in IF HasGet(program) THEN {EmptyEnv, TestEnv, EnvWithAddr} ELSE {EmptyEnv}
    /\ sink \in IF HasDisp(program) THEN Sinks ELSE {"pop"}
    /\ build \in Builds
    /\ InitVM
    /\ VMOnly

\* Every short instruction list, lowered and then run.
AsmInit ==
    /\ Sourced(ShortSources \cup TestSources)
    /\ capacity = MaxCap
    /\ env = EmptyEnv
    /\ sink = "pop"
    /\ build = "debug"
    /\ InitVM
    /\ VMOnly

\* The single-operation programs of the tests, over every pair of operands.
OpInit ==
    /\ Built(OpPrograms)
    /\ capacity = MaxCap
    /\ env = EmptyEnv
    /\ sink = "pop"
    /\ build \in Builds
    /\ InitVM
    /\ VMOnly

\* The model follows a step only while the call stack and the effect log
\* are within the bounds.
WithinBounds ==
    LET opcode == fetch(pc)
    IN opcode.k = "Ok" =>
          /\ opcode.val.op = "Call" => Len(call_stack) < MaxCalls
          /\ opcode.val.op = "Disp" => Len(effects) < MaxEffects

Top(stk) == IF stk = <<>> THEN NoValue ELSE stk[Len(stk)]

\* The history after a step from m that fetched opcode and ended in s.
Record(m, opcode, s, via) ==
    LET ok == opcode.k = "Ok" /\ s.res.k = "Ok"
        n == opcode.val.n
        below == Len(m.stack) - 1 - n
    IN [hist EXCEPT
          !.last = [op |-> opcode, pc |-> m.pc, stack |-> m.stack,
                    call_stack |-> m.call_stack, cur_frame |-> m.cur_frame,
                    res |-> s.res],
          !.frames =
              IF ok /\ opcode.val.op = "Call"
              THEN Append(@, [base |-> below, n |-> n,
                              args |-> IF below >= 0
                                       THEN SubSeq(m.stack, below + 1, below + n)
                                       ELSE <<>>,
                              depth |-> Len(m.call_stack),
                              frame |-> m.cur_frame, at |-> m.pc])
              ELSE IF ok /\ opcode.val.op = "Ret" /\ @ # <<>>
              THEN SubSeq(@, 1, Len(@) - 1)
              ELSE @,
          !.returned =
              IF ok /\ opcode.val.op = "Ret" /\ hist.frames # <<>>
              THEN hist.frames[Len(hist.frames)]
              ELSE NoResult,
          !.disp =
              IF ok /\ opcode.val.op = "Disp"
              THEN Append(@, [ef |-> opcode.val.ef, top |-> Top(m.stack)])
              ELSE @,
          !.via = via,
          !.fresh = FALSE]

\* What exec returned, with what it left behind.
Outcome(res, stk, out) == [result |-> res, stack |-> stk, effects |-> out]

\* A faulty head of exec that keeps the call stack and the frame.
ExecBeginKeepingCalls ==
    /\ mode = "idle"
    /\ mode' = "exec"
    /\ pc' = 0
    /\ stack' = <<>>
    /\ result' = NoResult
    /\ effects' = <<>>
    /\ hist' = [hist EXCEPT !.last = NoStep, !.frames = <<>>,
                            !.returned = NoResult, !.disp = <<>>,
                            !.via = "exec",
                            !.fresh = FALSE, !.began_fresh = hist.fresh,
                            !.began_nested =
                                IF hist.fresh THEN @ ELSE call_stack # <<>>]
    /\ UNCHANGED <<pool, scopes, checker, read_source>>
    /\ UNCHANGED <<program, capacity, env, sink, build, insns, call_stack,
                   cur_frame>>

\* The head of exec: reset the per-invocation state, enter the loop.
ExecBegin ==
    /\ mode = "idle"
    /\ mode' = "exec"
    /\ pc' = 0
    /\ stack' = <<>>
    /\ call_stack' = <<>>
    /\ cur_frame' = StackFrame(0, 0, 0)
    /\ result' = NoResult
    /\ effects' = <<>>
    /\ hist' = [hist EXCEPT !.last = NoStep, !.frames = <<>>,
                            !.returned = NoResult, !.disp = <<>>,
                            !.via = "exec",
                            !.fresh = FALSE, !.began_fresh = hist.fresh,
                            !.began_nested =
                                IF hist.fresh THEN @ ELSE call_stack # <<>>]
    /\ UNCHANGED <<pool, scopes, checker, read_source>>
    /\ UNCHANGED <<program, capacity, env, sink, build, insns>>

ExecResult(s) ==
    IF s.res.k = "Err" /\ s.res.err = HaltErr THEN Ok("()") ELSE s.res

ExecHist(s, h) ==
    IF s.res.k # "Err" THEN h
    ELSE IF hist.began_fresh
    THEN [h EXCEPT !.ref = Outcome(ExecResult(s), s.vm.stack, s.out)]
    ELSE [h EXCEPT !.dirty = Outcome(ExecResult(s), s.vm.stack, s.out)]

\* A faulty loop that goes on after a failed step.
ExecLoopWithoutReturn(s) ==
    /\ stack' = s.vm.stack
    /\ call_stack' = s.vm.call_stack
    /\ cur_frame' = s.vm.cur_frame
    /\ pc' = s.vm.pc
    /\ effects' = s.out
    /\ mode' = IF s.res.k = "Panic" THEN "crashed" ELSE "exec"
    /\ result' = NoResult
    /\ hist' = Record(VM, fetch(pc), s, "exec")

ExecLoopTo(s) ==
    /\ stack' = s.vm.stack
    /\ call_stack' = s.vm.call_stack
    /\ cur_frame' = s.vm.cur_frame
    /\ pc' = s.vm.pc
    /\ effects' = s.out
    /\ mode' = CASE s.res.k = "Ok"    -> "exec"
                 [] s.res.k = "Err"   -> "idle"
                 [] s.res.k = "Panic" -> "crashed"
    /\ result' = IF s.res.k = "Ok" THEN NoResult ELSE ExecResult(s)
    /\ hist' = ExecHist(s, Record(VM, fetch(pc), s, "exec"))

ExecLoopTakingEnv ==
    /\ mode = "exec"
    /\ WithinBounds
    /\ \E s \in {step(VM, env, effects)} : ExecLoopTo(s)
    /\ env' = IF Len(stack) > 0 /\ fetch(pc) = Ok(Get) THEN EmptyEnv ELSE env
    /\ UNCHANGED <<pool, scopes, checker, read_source>>
    /\ UNCHANGED <<program, capacity, sink, build, insns>>

\* One turn of exec's loop: a step, and the return when it fails.
ExecLoop ==
    /\ mode = "exec"
    /\ WithinBounds
    /\ \E s \in {step(VM, env, effects)} : ExecLoopTo(s)
    /\ UNCHANGED <<pool, scopes, checker, read_source>>
    /\ UNCHANGED <<program, capacity, env, sink, build, insns>>

DebugStepTo(s) ==
    /\ stack' = s.vm.stack
    /\ call_stack' = s.vm.call_stack
    /\ cur_frame' = s.vm.cur_frame
    /\ pc' = s.vm.pc
    /\ effects' = s.out
    /\ mode' = IF s.res.k = "Panic" THEN "crashed" ELSE "idle"
    /\ result' = s.res
    /\ hist' = Record(VM, fetch(pc), s, "step")

\* A call of step by the embedder (the debugger interface).
DebugStep ==
    /\ mode = "idle"
    /\ WithinBounds
    /\ \E s \in {step(VM, env, effects)} : DebugStepTo(s)
    /\ UNCHANGED <<pool, scopes, checker, read_source>>
    /\ UNCHANGED <<program, capacity, env, sink, build, insns>>

\* VM::new(program, depth) again, on the same program and depth.
Construct ==
    /\ mode = "idle"
    /\ ~hist.fresh
    /\ stack' = NewVM.stack
    /\ call_stack' = NewVM.call_stack
    /\ cur_frame' = NewVM.cur_frame
    /\ pc' = NewVM.pc
    /\ result' = NoResult
    /\ effects' = <<>>
    /\ hist' = [NewHist EXCEPT !.ref = hist.ref, !.dirty = hist.dirty,
                               !.began_nested = hist.began_nested]
    /\ UNCHANGED <<pool, scopes, checker, read_source>>
    /\ UNCHANGED <<program, capacity, env, sink, build, insns, mode>>

\* lower(insns), and VM::new on the Program it returns.
Lower ==
    /\ mode = "source"
    /\ \E lowered \in {lower(insns)} :
          /\ program' = IF lowered.k = "Ok" THEN lowered.val ELSE program
          /\ mode' = IF lowered.k = "Ok" THEN "idle" ELSE "crashed"
          /\ result' = IF lowered.k = "Ok" THEN NoResult ELSE lowered
    /\ UNCHANGED <<stack, call_stack, cur_frame, pc, capacity, env, sink,
                   build, insns, effects, hist>>
    /\ UNCHANGED <<pool, scopes, checker, read_source>>

Next == ExecBegin \/ ExecLoop \/ DebugStep \/ Construct \/ Lower

\* The VM and the loader's lists are not in use.
VMUnused ==
    /\ Built({Program(<<>>, <<>>)})
    /\ capacity = 0
    /\ env = EmptyEnv
    /\ sink = "pop"
    /\ build = "debug"
    /\ InitVM

\* One more literal than a u16 can number.
MaxPool == 2 ^ PoolIndexBits + 1

\* An instruction list of pool.distinct literals, no two with the same
\* Debug string, and the position pool.at of one of them (the first or the
\* last).
PoolInit ==
    /\ \E n \in 1..MaxPool : \E c \in {0, n - 1} :
          pool = [NoPool EXCEPT !.distinct = n, !.at = c]
    /\ scopes = NoScopes
    /\ checker = NoChecker
    /\ read_source = NoSource
    /\ VMUnused

\* lower on that list: every literal is new when the loop comes to it, so
\* the literal at position c finds data.len() = c, is pushed as data[c] and
\* gets LoadI(c as u16); lower has no other exit than Ok(Program).
LowerDistinct ==
    /\ ~pool.lowered
    /\ pool' = [pool EXCEPT !.lowered = TRUE,
                            !.data_len = pool.distinct,
                            !.index = PoolIndex(pool.at)]
    /\ UNCHANGED <<vm_vars, scopes, checker, read_source>>

PoolSpec == PoolInit /\ [][LowerDistinct]_vars

\* The names and the values bound in an Env, and the association lists
\* given to import (a name may occur twice).
Names == {"x", "y"}
Bound == {"Int", "Str"}
ALists == SeqsUpTo(Names \X Bound, 2)

\* What get returns for each name: the bindings visible in an Env.
Visible(self) == [key \in Names |-> env_get(self, key)]

\* Env::new()
EnvInit ==
    /\ scopes = [NoScopes EXCEPT !.stack = env_new,
                                 !.begun = <<Visible(<<>>)>>]
    /\ pool = NoPool
    /\ checker = NoChecker
    /\ read_source = NoSource
    /\ VMUnused

\* begin(); the history keeps what was visible before it.
EnvBegin ==
    /\ ~scopes.panicked
    /\ Len(scopes.stack) < MaxScopes
    /\ scopes' = [scopes EXCEPT !.stack = begin(@),
                                !.begun = Append(@, Visible(scopes.stack)),
                                !.got = NoResult,
                                !.restored = NoResult]
    /\ UNCHANGED <<vm_vars, pool, checker, read_source>>

\* end()
EnvEnd ==
    /\ ~scopes.panicked
    /\ scopes' = [scopes EXCEPT
                     !.stack = end(@),
                     !.begun = IF @ = <<>> THEN @
                               ELSE SubSeq(@, 1, Len(@) - 1),
                     !.got = NoResult,
                     !.restored = IF scopes.begun = <<>> THEN NoResult
                                  ELSE scopes.begun[Len(scopes.begun)]]
    /\ UNCHANGED <<vm_vars, pool, checker, read_source>>

EnvWrite(written) ==
    scopes' = [scopes EXCEPT
                 !.stack = IF written.k = "Ok" THEN written.val ELSE @,
                 !.panicked = written.k # "Ok",
                 !.got = NoResult,
                 !.restored = NoResult]

\* define(key, value)
EnvDefine ==
    /\ ~scopes.panicked
    /\ \E key \in Names, value \in Bound :
          EnvWrite(define(scopes.stack, key, value))
    /\ UNCHANGED <<vm_vars, pool, checker, read_source>>

\* import(scope)
EnvImport ==
    /\ ~scopes.panicked
    /\ \E scope \in ALists : EnvWrite(import(scopes.stack, scope))
    /\ UNCHANGED <<vm_vars, pool, checker, read_source>>

\* get(key)
EnvGet ==
    /\ ~scopes.panicked
    /\ \E key \in Names :
          scopes' = [scopes EXCEPT
                       !.got = [key |-> key,
                                value |-> env_get(scopes.stack, key)]]
    /\ UNCHANGED <<vm_vars, pool, checker, read_source>>

EnvNext == EnvBegin \/ EnvEnd \/ EnvDefine \/ EnvImport \/ EnvGet

\* The environments of the tests (the env! macro: a root with some names
\* defined), f being a function.
TcEnvs ==
    {root,
     define(root, "x", TInt).val,
     define(root, "x", TList(TStr)).val,
     define(root, "x", TMap([x |-> TStr])).val,
     define(root, "x", TMap([a |-> TInt, b |-> TFloat])).val,
     define(root, "x", TMap([a |-> TInt, b |-> TFloat, c |-> TInt])).val,
     define(define(root, "x", TStr).val, "f",
            TLambda(<<TInt>>, TBool)).val}

\* Operands of every plain type, of two equal compound types and of a
\* function type, and a name that may be undefined.
Literals6 == {ExprLit(v) : v \in {"Unit", "Bool", "Int", "Float", "Str", "Point"}}
TcOperands ==
    Literals6 \cup {ExprList(<<ExprLit("Int")>>), ExprId("x"), ExprId("f")}

BinOpExprs == {ExprBinOp(op, l, r) : op \in BinOp, l \in TcOperands,
                                      r \in TcOperands}

UnOpExprs == {ExprUnOp(op, o) : op \in UnOp, o \in TcOperands}

\* Lists of up to MaxItems literals, the element types repeating next to
\* each other and apart.
ListExprs ==
    {ExprList(items) :
        items \in SeqsUpTo({ExprLit("Int"), ExprLit("Float"), ExprLit("Str")},
                           MaxItems)}

\* Formal parameters, return types and bodies of lambdas; test_lambda is
\* lambda (x: Int) -> Int { x + 4 }.
Formals == SeqsUpTo({"x", "y"} \X {TInt, TStr}, 2)
Bodies ==
    {ExprId("x"), ExprId("y"), ExprLit("Int"),
     ExprBinOp("Add", ExprId("x"), ExprLit("Int")),
     ExprBlock(<<Def("y", ExprId("x"))>>, ExprId("y"))}
LambdaExprs ==
    {ExprLambda(args, ret_type, body) :
        args \in Formals, ret_type \in {TInt, TStr}, body \in Bodies}

\* Calls of a name, of a literal and of lambdas of no, one and two formals,
\* with up to two arguments, one of which may be undefined.
Callees ==
    {ExprId("f"), ExprLit("Int"),
     ExprLambda(<<>>, TBool, ExprLit("Bool")),
     ExprLambda(<<<<"x", TInt>>>>, TInt, ExprId("x")),
     ExprLambda(<<<<"x", TInt>>, <<"y", TStr>>>>, TStr, ExprId("y"))}
CallExprs ==
    {ExprCall(func, args) :
        func \in Callees,
        args \in SeqsUpTo({ExprLit("Int"), ExprLit("Str"), ExprId("y")}, 2)}

\* Blocks of up to two statements that define, shadow and fail, with a
\* result that reads a name, and one block inside another.
BlockStmts ==
    {Def("x", ExprLit("Str")), Def("y", ExprLit("Int")),
     Def("y", ExprId("x")), ExprForEffect(ExprLit("Unit")),
     ExprForEffect(ExprLit("Int"))}
BlockExprs ==
    {ExprBlock(stmts, ret_expr) :
        stmts \in SeqsUpTo(BlockStmts, 2),
        ret_expr \in {ExprId("x"), ExprId("y"), ExprLit("Unit"),
                      ExprBlock(<<Def("x", ExprLit("Float"))>>, ExprId("x"))}}

\* The other expressions, as the tests have them.
OtherExprs ==
    {ExprMap(<<<<"foo", ExprLit("Int")>>, <<"bar", ExprLit("Str")>>>>),
     ExprDot(ExprId("x"), "x"), ExprDot(ExprId("x"), "bar"),
     ExprDot(ExprLit("Int"), "bar"),
     ExprIndex(ExprId("x"), ExprLit("Int")),
     ExprIndex(ExprId("x"), ExprLit("Str")),
     ExprCond(<<<<ExprLit("Bool"), ExprLit("Int")>>,
                <<ExprLit("Bool"), ExprLit("Float")>>>>),
     ExprCond(<<<<ExprLit("Int"), ExprLit("Int")>>>>)}

TcExprs ==
    BinOpExprs \cup UnOpExprs \cup ListExprs \cup LambdaExprs \cup CallExprs
        \cup BlockExprs \cup OtherExprs

\* Statements given to check_statement: those of the tests and one of
\* each other kind.
TcStmts ==
    BlockStmts \cup
    {ListIter("i", ExprId("x"), Emit("show_text", <<ExprId("i")>>)),
     ListIter("i", ExprId("x"),
              ExprForEffect(ExprBlock(<<>>, ExprId("i")))),
     MapIter("k", "v", ExprId("x"), Emit("show_text", <<ExprId("v")>>)),
     MapIter("k", "v", ExprId("x"),
             ExprForEffect(ExprBlock(<<>>, ExprId("v")))),
     MapIter("k", "v", ExprId("x"),
             ExprForEffect(ExprBlock(<<>>, ExprId("k")))),
     MapIter("k", "k", ExprId("x"), Emit("show_text", <<>>)),
     While(ExprLit("Bool"),
           MapIter("v", "v", ExprId("x"), Emit("show_text", <<>>))),
     ListIter("i", ExprId("x"),
              MapIter("i", "i", ExprId("x"), Emit("show_text", <<>>))),
     While(ExprLit("Bool"), Def("y", ExprLit("Int"))),
     While(ExprLit("Int"), Def("y", ExprLit("Int"))),
     Guard(<<<<ExprLit("Bool"), Def("y", ExprLit("Int"))>>>>,
           Some(Def("x", ExprLit("Unit")))),
     Guard(<<<<ExprId("x"), Def("y", ExprLit("Int"))>>>>, None)}

\* ast::Program, reduced to its code: up to two of these statements.
AstProgram(code) == [code |-> code]
TcPrograms ==
    {AstProgram(code) :
        code \in SeqsUpTo({Def("y", ExprId("x")),
                           ExprForEffect(ExprId("y")),
                           While(ExprId("x"), ExprForEffect(ExprLit("Unit"))),
                           MapIter("k", "k", ExprId("x"),
                                   Emit("show_text", <<>>))}, 2)}

\* The field names of the Map types bound in an environment, and the
\* orders a HashMap may iterate a set of keys in.
FieldNames(types) ==
    UNION {UNION {IF types[i][n].tt = "Map" THEN DOMAIN types[i][n].fields
                  ELSE {} : n \in DOMAIN types[i]} : i \in DOMAIN types}
Orders(keys) ==
    {o \in [1..Cardinality(keys) -> keys] :
        \A i, j \in DOMAIN o : i # j => o[i] # o[j]}

\* TypeChecker::new(env), the expression or statement it is given, and
\* the order its maps iterate in.
Checking(asts) ==
    /\ \E types \in TcEnvs, ast \in asts :
          \E order \in Orders(FieldNames(types)) :
              checker = [NoChecker EXCEPT !.types = types, !.ast = ast,
                                          !.before = types, !.order = order]
    /\ pool = NoPool
    /\ scopes = NoScopes
    /\ read_source = NoSource
    /\ VMUnused

TcInit == Checking(TcExprs \cup TcStmts)

\* The same, given a whole Program.
TcProgramInit == Checking(TcPrograms)

TcReturn(r) ==
    checker' = [checker EXCEPT !.types = r.types, !.returned = r.res]

\* tc.eval_expr(&expr)
EvalExpr ==
    /\ checker.returned = NoResult
    /\ checker.ast \in TcExprs
    /\ \E r \in {eval_expr(checker.types, checker.ast)} : TcReturn(r)
    /\ UNCHANGED <<vm_vars, pool, scopes, read_source>>

\* tc.check_statement(&statement)
CheckStatement ==
    /\ checker.returned = NoResult
    /\ checker.ast \in TcStmts
    /\ \E r \in {check_statement(checker.types, checker.ast)} : TcReturn(r)
    /\ UNCHANGED <<vm_vars, pool, scopes, read_source>>

\* tc.check_program(prog): for stmt in prog.code {
\* self.check_statement(&stmt)? }, one turn of the loop at a time; checker.at
\* statements are done. The ? returns the first failure, and the end of
\* the loop returns Ok(()).
CheckProgram ==
    /\ checker.returned = NoResult
    /\ checker.ast \in TcPrograms
    /\ IF checker.at = Len(checker.ast.code)
       THEN checker' = [checker EXCEPT !.returned = Ok("()")]
       ELSE \E r \in {check_statement(checker.types,
                                      checker.ast.code[checker.at + 1])} :
               checker' = [checker EXCEPT
                              !.types = r.types,
                              !.at = @ + 1,
                              !.returned = IF r.res.k = "Ok" THEN NoResult
                                           ELSE r.res]
    /\ UNCHANGED <<vm_vars, pool, scopes, read_source>>

TcNext == EvalExpr \/ CheckStatement

TcSpec == TcInit /\ [][TcNext]_vars

TcProgramSpec == TcProgramInit /\ [][CheckProgram]_vars

EnvSpec == EnvInit /\ [][EnvNext]_vars

Spec == Init /\ [][Next]_vars

\* exec's loop calls step again and again until a step fails: inside exec
\* the next turn of the loop is always taken.
ExecNext == ExecBegin \/ ExecLoop

\* The single-operation programs, run by exec as the tests run them.
OpSpec == OpInit /\ [][ExecNext]_vars

AsmNext == Lower \/ ExecBegin \/ ExecLoop

AsmSpec == AsmInit /\ [][AsmNext]_vars

\* The runs of exec alone, on the debug build with no room and with room
\* on the stack.
ExecInit ==
    Init /\ mode = "idle" /\ build = "debug" /\ capacity \in {0, MaxCap}

FairSpec == ExecInit /\ [][ExecNext]_vars /\ WF_vars(ExecLoop)

----------------------------------------------------------------------------
(* ReadSource (data.rs): the reader thread and get_state.                  *)

\* ReadSource::new: an empty line, a condvar with no waiter, and the reader
\* thread spawned at the top of its loop.
ReadInit ==
    /\ read_source = [NoSource EXCEPT !.reader = "lock"]
    /\ pool = NoPool /\ scopes = NoScopes /\ checker = NoChecker
    /\ VMUnused

SourceStep(next) ==
    /\ read_source' = next
    /\ UNCHANGED <<vm_vars, pool, scopes, checker>>

\* thread_line.lock(): the reader takes the mutex when no thread holds it.
ReaderLock ==
    /\ read_source.reader = "lock" /\ read_source.owner = "none"
    /\ SourceStep([read_source EXCEPT !.owner = "reader", !.reader = "read"])

\* lg.clear(); reader.read_line(&mut lg): with the mutex held, the reader
\* blocks until the input delivers a complete line.
ReadLine ==
    /\ read_source.reader = "read"
    /\ SourceStep([read_source EXCEPT
                      !.line = "line", !.reader = "notify",
                      !.since = IF read_source.caller \in {"wait", "woken"}
                                   /\ @ < MaxLines
                                THEN @ + 1 ELSE @])

\* thread_cv.notify_all(): a get_state waiting on the condvar is woken; with
\* no waiter the notification has no effect.
NotifyAll ==
    /\ read_source.reader = "notify"
    /\ SourceStep([read_source EXCEPT
                      !.reader = "unlock",
                      !.caller = IF @ = "wait" THEN "woken" ELSE @])

\* The end of the loop body drops lg, and the loop starts over.
ReaderUnlock ==
    /\ read_source.reader = "unlock"
    /\ SourceStep([read_source EXCEPT !.owner = "none", !.reader = "lock"])

\* The embedder calls get_state.
GetState ==
    /\ read_source.caller = "idle"
    /\ SourceStep([read_source EXCEPT !.caller = "lock", !.since = 0])

\* self.line.lock() in get_state.
CallerLock ==
    /\ read_source.caller = "lock" /\ read_source.owner = "none"
    /\ SourceStep([read_source EXCEPT !.owner = "caller",
                                      !.caller = "locked"])

\* self.cv.wait(lg) gives the mutex up and blocks, in one step.
CallerWait ==
    /\ read_source.caller = "locked"
    /\ SourceStep([read_source EXCEPT !.owner = "none", !.caller = "wait",
                                      !.since = 0])

\* Condvar::wait may return without a notification.
SpuriousWake ==
    /\ read_source.caller = "wait"
    /\ SourceStep([read_source EXCEPT !.caller = "woken"])

\* A woken wait takes the mutex again before it returns the guard.
CallerRelock ==
    /\ read_source.caller = "woken" /\ read_source.owner = "none"
    /\ SourceStep([read_source EXCEPT !.owner = "caller",
                                      !.caller = "clone"])

\* get_state clones the line, drops the guard and returns the State
\* updated from the line.
CallerReturn ==
    /\ read_source.caller = "clone"
    /\ SourceStep([read_source EXCEPT !.owner = "none", !.caller = "idle",
                                      !.got = Ok(read_source.line),
                                      !.took = read_source.since])

Reader == ReaderLock \/ ReadLine \/ NotifyAll \/ ReaderUnlock
Caller == CallerLock \/ CallerWait \/ CallerRelock \/ CallerReturn

ReadNext == Reader \/ Caller \/ GetState \/ SpuriousWake

\* Both threads are scheduled again and again, and the input keeps
\* delivering lines; std::sync::Mutex promises no order among the threads
\* that want it.
ReadSpec ==
    ReadInit /\ [][ReadNext]_vars /\ WF_vars(Reader) /\ WF_vars(Caller)

\* The same with a mutex that never passes a waiting thread over forever.
ReadSpecFairMutex ==
    ReadSpec /\ SF_vars(CallerLock) /\ SF_vars(CallerRelock)

----------------------------------------------------------------------------
(* Properties.                                                             *)

Last == hist.last
Stepped == Last.op.k # "None"
Executed(name) == Stepped /\ Last.op.k = "Ok" /\ Last.op.val.op = name

\* C1: every exec invocation ends by returning Ok(()) or one of the
\* enumerated Error kinds; no step of exec ends the invocation another way.
C1_ExecReturnsOkOrError ==
    hist.via = "exec" =>
        \/ result.k \in {"None", "Ok"}
        \/ result.k = "Err" /\ result.err.e \in ErrorKinds

\* C2: the operand stack never holds more than capacity values; a LoadI or
\* a pushing sink that finds the stack full fails with Overflow and leaves
\* the stack as it was, and whenever a step fails with Overflow the stack
\* is exactly full.
C2_StackWithinCapacity ==
    /\ Len(stack) <= capacity
    /\ Stepped /\ Last.res = Err(Overflow) => Len(stack) = capacity
    /\ /\ \/ Executed("LoadI") /\ Last.op.val.k < Len(program.data)
          \/ Executed("Disp") /\ sink = "push"
       /\ Len(Last.stack) = capacity
       => Last.res = Err(Overflow) /\ stack = Last.stack

C2_Witness ==
    /\ Executed("Disp") /\ sink = "push"
    /\ capacity > 0 /\ Len(Last.stack) = capacity
    /\ Last.res = Err(Overflow)

\* C4: the sink has received exactly one record per executed Disp, in the
\* order of execution, in every state (no later opcode runs before the
\* record is delivered); a popping sink gets the values in push order.
C4_EffectsInProgramOrder ==
    /\ Len(effects) = Len(hist.disp)
    /\ \A i \in 1..Len(effects) :
          /\ effects[i].ef = hist.disp[i].ef
          /\ sink = "pop" => effects[i].val = hist.disp[i].top

C4_Witness ==
    /\ program = TestDisp /\ sink = "pop" /\ result = Ok("()")
    /\ effects = <<[ef |-> "Rect", val |-> VInt(1)],
                   [ef |-> "Rect", val |-> VBool(TRUE)],
                   [ef |-> "Rect", val |-> VFloat(FloatDen)]>>

\* C9: a step at pc < len(code) fetches code[pc], at pc = len(code) it
\* fetches Halt (exec returns Ok(()) and the stack is left as it was), and
\* at pc > len(code) it fails with IllegalAddr(pc).
C9_FetchByAddress ==
    Stepped =>
        LET len == Len(program.code)
        IN /\ Last.pc < len => Last.op = Ok(program.code[Last.pc + 1])
           /\ Last.pc = len =>
                 /\ Last.op = Err(HaltErr) /\ Last.res = Err(HaltErr)
                 /\ stack = Last.stack
                 /\ hist.via = "exec" => result = Ok("()") /\ mode = "idle"
           /\ Last.pc > len =>
                 /\ Last.op = Err(IllegalAddr(Last.pc))
                 /\ Last.res = Err(IllegalAddr(Last.pc))
                 /\ hist.via = "exec" => result = Err(IllegalAddr(Last.pc))

\* Reached past the end by a branch, and at the end by a return.
C9_Witness ==
    /\ program = BranchTarget(4) /\ hist.via = "exec"
    /\ result = Err(IllegalAddr(4))

C9_WitnessHalt ==
    /\ program = TestCallRet1 /\ hist.via = "exec" /\ result = Ok("()")
    /\ Last.pc = Len(program.code) /\ stack = <<VInt(100)>>

\* A stack that ends in the Addr a, and below it the Bool b.
EndsInAddr(stk) == stk # <<>> /\ stk[Len(stk)].t = "Addr"
EndsInBoolAddr(stk) ==
    Len(stk) >= 2 /\ EndsInAddr(stk) /\ stk[Len(stk) - 1].t = "Bool"
Without(stk, n) == SubSeq(stk, 1, Len(stk) - n)

\* C10: BranchTrue pops an Addr and a Bool and goes to the address iff the
\* Bool is true, else to pc + 1; BranchFalse goes to the address iff the
\* Bool is false; Branch pops the Addr alone and goes there; the values
\* beneath are unchanged.
C10_Branching ==
    LET stk == Last.stack
        addr == stk[Len(stk)].v
        cond == stk[Len(stk) - 1].v
    IN /\ Executed("BranchTrue") /\ EndsInBoolAddr(stk) =>
             /\ Last.res = Ok("()")
             /\ pc = IF cond THEN addr ELSE Last.pc + 1
             /\ stack = Without(stk, 2)
       /\ Executed("BranchFalse") /\ EndsInBoolAddr(stk) =>
             /\ Last.res = Ok("()")
             /\ pc = IF cond THEN Last.pc + 1 ELSE addr
             /\ stack = Without(stk, 2)
       /\ Executed("Branch") /\ EndsInAddr(stk) =>
             /\ Last.res = Ok("()")
             /\ pc = addr
             /\ stack = Without(stk, 1)

\* BranchFalse taken over a value that stays beneath.
C10_Witness ==
    /\ Executed("BranchFalse") /\ EndsInBoolAddr(Last.stack)
    /\ ~Last.stack[Len(Last.stack) - 1].v
    /\ pc = 7 /\ stack = <<VInt(100)>>

\* C5: exec starts from pc = 0, an empty stack, an empty call stack and a
\* zero frame whatever state the VM was in, and an exec on a used VM (after
\* a Halt, an error, or steps that left it inside nested calls) has the
\* same result, final stack and effects as an exec on a fresh VM.
C5_ExecResets ==
    /\ mode = "exec" /\ ~Stepped => VM = NewVM
    /\ hist.ref # NoResult /\ hist.dirty # NoResult => hist.dirty = hist.ref

C5_Witness ==
    /\ hist.ref # NoResult /\ hist.dirty # NoResult /\ hist.began_nested
    /\ program = NestedCalls /\ hist.dirty.result = Ok("()")
    /\ hist.dirty.stack = <<VInt(100), VInt(24)>>

\* C6: a Ret(m) that returns leaves the stack m deeper than it was before
\* the caller pushed the n arguments of the matching Call(n), and the call
\* stack as deep as it was before that Call.
C6_CallRetBalance ==
    Executed("Ret") /\ Last.res = Ok("()") =>
        /\ hist.returned # NoResult
        /\ hist.returned.base >= 0 =>
              /\ Len(stack) = hist.returned.base + Last.op.val.n
              /\ Len(call_stack) = hist.returned.depth

\* A return from a call made inside another call.
C6_Witness ==
    /\ Executed("Ret") /\ Last.res = Ok("()")
    /\ hist.returned # NoResult /\ hist.returned.depth = 1
    /\ hist.returned.n = 2 /\ Last.op.val.n = 1
    /\ Len(stack) = hist.returned.base + 1

\* The frame of the call that is active (after the last step).
Active == hist.frames[Len(hist.frames)]
ArgsInPlace(stk, f) ==
    /\ f.base >= 0 /\ Len(stk) >= f.base + f.n
    /\ SubSeq(stk, f.base + 1, f.base + f.n) = f.args

\* C7: inside a call of arity n whose argument block is in place, Arg(i)
\* with i < n pushes the i-th argument as the caller pushed it (or fails
\* with Overflow on a full stack); with i >= n it fails with Arity(i, n);
\* outside every call it fails with Arity(i, 0).
C7_ArgReadsArgument ==
    Executed("Arg") =>
        LET i == Last.op.val.n
        IN IF hist.frames = <<>> THEN Last.res = Err(Arity(i, 0))
           ELSE /\ i >= Active.n => Last.res = Err(Arity(i, Active.n))
                /\ i < Active.n /\ ArgsInPlace(Last.stack, Active) =>
                      IF Len(Last.stack) < capacity
                      THEN /\ Last.res = Ok("()")
                           /\ stack = Append(Last.stack, Active.args[i + 1])
                           /\ pc = Last.pc + 1
                      ELSE /\ Last.res = Err(Overflow)
                           /\ stack = Last.stack

\* Arg(0) of the outer call, read after the inner call has returned and
\* with values above the argument block.
C7_Witness ==
    /\ program = NestedCalls /\ Executed("Arg") /\ Last.pc = 8
    /\ Len(hist.frames) = 1
    /\ stack = <<VInt(100), VInt(7), VInt(8), VInt(17), VInt(7)>>

StraightLine ==
    \A i \in 1..Len(program.code) :
        program.code[i].op \notin
            {"Call", "Ret", "Branch", "BranchTrue", "BranchFalse"}

\* C8 as stated: every exec that has begun returns (the model stops
\* following a run that leaves its bounds; such a run is not counted).
C8_ExecTerminates ==
    (mode = "exec") ~> (mode # "exec" \/ ~WithinBounds)

\* C8 as amended: an exec of a program without Call, Ret and branch opcodes
\* returns.
C8_StraightLineTerminates ==
    (mode = "exec" /\ StraightLine) ~> (mode # "exec")

C8_Witness ==
    /\ StraightLine /\ program = TestDisp /\ hist.via = "exec"
    /\ result = Ok("()") /\ Len(effects) = 3

\* The operands of the last step's Binary: A was pushed first, B second.
OperandA == Last.stack[Len(Last.stack) - 1]
OperandB == Last.stack[Len(Last.stack)]
BinaryOf(ops) ==
    /\ Executed("Binary") /\ Last.op.val.bop \in ops
    /\ Len(Last.stack) >= 2
UnaryOf(ops) ==
    /\ Executed("Unary") /\ Last.op.val.uop \in ops
    /\ Last.stack # <<>>

\* C11: Binary(Eq) never fails: it replaces its two operands by a Bool,
\* which is false for every mixed-tag pair and, for a same-tag pair, true
\* exactly when the operands are the same value (a NaN equals nothing).
C11_EqNeverErrors ==
    BinaryOf({"Eq"}) =>
        /\ Last.res = Ok("()")
        /\ stack = Append(Without(Last.stack, 2),
                          VBool(/\ OperandA.t = OperandB.t
                                /\ OperandA = OperandB
                                /\ OperandA # VFloatNaN))

\* Int 0 against Float 0.0: false, and no error.
C11_Witness ==
    /\ BinaryOf({"Eq"}) /\ Last.stack = <<VInt(0), VFloat(0)>>
    /\ Last.res = Ok("()") /\ stack = <<VBool(FALSE)>>

\* The operand tags for which a binary operator other than Eq is defined
\* (both operands have the same tag).
Whitelist(op) ==
    CASE op \in {"And", "Or", "Xor"} -> {"Bool", "Int"}
      [] op \in {"Shl", "Shr"}       -> {"Int"}
      [] OTHER                       -> {"Int", "Float"}

\* C12: a binary operator other than Eq, applied to a pair outside its
\* whitelist, fails with TypeMismatch(tag of A, tag of B) and pushes
\* nothing.
C12_MismatchIsTypeMismatch ==
    /\ BinaryOf(BinOp \ {"Eq"})
    /\ ~(/\ OperandA.t = OperandB.t
         /\ OperandA.t \in Whitelist(Last.op.val.bop))
    => /\ Last.res = Err(TypeMismatch(OperandA.t, OperandB.t))
       /\ stack = Without(Last.stack, 2)

\* Bool + Int is not coerced.
C12_Witness ==
    /\ BinaryOf({"Add"}) /\ Last.stack = <<VBool(TRUE), VInt(1)>>
    /\ Last.res = Err(TypeMismatch("Bool", "Int")) /\ stack = <<>>

InRange(x) == x >= IntMin /\ x <= IntMax
\* The operation failed with an enumerated error and pushed nothing.
Trapped(n) ==
    /\ Last.res.k = "Err" /\ Last.res.err.e \in ErrorKinds
    /\ stack = Without(Last.stack, n)

\* C13: on Int operands add, sub, mul, pow, neg and abs with a result
\* outside the Int range fail with an enumerated error and push nothing;
\* a / b is the quotient truncated toward zero.
C13_IntOverflowTraps ==
    /\ BinaryOf({"Add"}) /\ Both(OperandA, OperandB, "Int")
       /\ ~InRange(OperandA.v + OperandB.v) => Trapped(2)
    /\ BinaryOf({"Sub"}) /\ Both(OperandA, OperandB, "Int")
       /\ ~InRange(OperandA.v - OperandB.v) => Trapped(2)
    /\ BinaryOf({"Mul"}) /\ Both(OperandA, OperandB, "Int")
       /\ ~InRange(OperandA.v * OperandB.v) => Trapped(2)
    /\ BinaryOf({"Pow"}) /\ Both(OperandA, OperandB, "Int")
       /\ OperandB.v >= IntBits - 1
       /\ (OperandA.v >= 2 \/ OperandA.v <= -3) => Trapped(2)
    /\ UnaryOf({"Neg", "Abs"}) /\ Top(Last.stack) = VInt(IntMin) => Trapped(1)
    /\ BinaryOf({"Div"}) /\ Both(OperandA, OperandB, "Int")
       /\ OperandB.v # 0 /\ OperandA.v # IntMin =>
          /\ Last.res = Ok("()")
          /\ \E q \in IntMin..IntMax :
                /\ stack = Append(Without(Last.stack, 2), VInt(q))
                /\ AbsI(q) * AbsI(OperandB.v) <= AbsI(OperandA.v)
                /\ AbsI(OperandA.v) < (AbsI(q) + 1) * AbsI(OperandB.v)
                /\ q # 0 => (q < 0) = ((OperandA.v < 0) # (OperandB.v < 0))

\* What the table gives for the coercion of v to tt, NoValue where it
\* gives nothing. A Float outside the Int range saturates; NaN becomes 0.
Coerced(v, tt) ==
    CASE v.t = "Bool"  /\ tt = "Bool"  -> v
      [] v.t = "Bool"  /\ tt = "Int"   -> IF v.v THEN VInt(1) ELSE VInt(0)
      [] v.t = "Int"   /\ tt = "Bool"  -> VBool(v.v # 0)
      [] v.t = "Int"   /\ tt = "Int"   -> v
      [] v.t = "Int"   /\ tt = "Float" -> VFloat(v.v * FloatDen)
      [] v.t = "Float" /\ tt = "Int"   ->
            CASE IsNaN(v) -> VInt(0)
              [] IsInf(v) -> IF v.v > 0 THEN VInt(IntMax) ELSE VInt(IntMin)
              [] OTHER    ->
                    VInt(CHOOSE q \in IntMin..IntMax :
                            /\ AbsI(q) * FloatDen <= AbsI(v.v)
                            /\ AbsI(v.v) < (AbsI(q) + 1) * FloatDen
                            /\ q # 0 => (q < 0) = (v.v < 0))
      [] v.t = "Float" /\ tt = "Float" -> v
      [] v.t = "Str"   /\ tt = "Bool"  -> VBool(v.v # "")
      [] v.t \in {"List", "Map"} /\ tt = "Bool" -> VBool(v.v # <<>>)
      [] OTHER -> NoValue

\* Coerce(tt) pops its operand and pushes what the table gives; where the
\* table gives nothing it fails with an error of the given kind.
CoerceFollowsTable(kind) ==
    Executed("Coerce") /\ Last.stack # <<>> =>
        LET v == Top(Last.stack)
            want == Coerced(v, Last.op.val.tt)
        IN IF want # NoValue
           THEN /\ Last.res = Ok("()")
                /\ stack = Append(Without(Last.stack, 1), want)
           ELSE /\ Last.res.k = "Err" /\ Last.res.err.e = kind
                /\ stack = Without(Last.stack, 1)

\* C14 as stated: the pairs outside the table fail with TypeError.
C14_CoerceFailsWithTypeError == CoerceFollowsTable("TypeError")

\* C14 as amended: the pairs outside the table fail with
\* TypeMismatch(tag of the operand, target tag).
C14_CoerceFailsWithTypeMismatch ==
    /\ CoerceFollowsTable("TypeMismatch")
    /\ Executed("Coerce") /\ Last.res.k = "Err" /\ Last.stack # <<>> =>
          Last.res = Err(TypeMismatch(Top(Last.stack).t, Last.op.val.tt))

\* A Float truncated toward zero, and a coercion to Addr refused.
C14_Witness ==
    /\ Executed("Coerce") /\ Last.op.val.tt = "Addr"
    /\ Last.stack = <<VInt(1)>> /\ stack = <<>>
    /\ Last.res = Err(TypeMismatch("Int", "Addr"))

C14_WitnessTruncation ==
    /\ Executed("Coerce") /\ Last.op.val.tt = "Int"
    /\ Last.stack = <<VFloat(-(FloatDen + 1))>> /\ stack = <<VInt(-1)>>

\* C15: Expect(tt) leaves the stack as it was; it advances when the top
\* has the tag tt, fails with TypeError{expect: {tt}, got: the tag of the
\* top} when it has another, and with Underflow on an empty stack.
C15_ExpectLeavesStack ==
    Executed("Expect") =>
        /\ stack = Last.stack
        /\ IF Last.stack = <<>> THEN Last.res = Err(Underflow)
           ELSE IF Top(Last.stack).t = Last.op.val.tt
           THEN Last.res = Ok("()") /\ pc = Last.pc + 1
           ELSE Last.res = Err(TypeError({Last.op.val.tt}, Top(Last.stack).t))

C15_Witness ==
    /\ program = TestExpect(VInt(1), "Bool") /\ Executed("Expect")
    /\ Last.res = Err(TypeError({"Bool"}, "Int")) /\ stack = <<VInt(1)>>

C17_AddrsComeFromPool ==
    \A i \in 1..Len(stack) :
       stack[i].t = "Addr" =>
          \E k \in 1..Len(program.data) : program.data[k] = stack[i]

\* What the sink returns on the stack the last step found, when it is an
\* error: a popping sink on the empty stack, a sink that wants a Float on
\* another variant, a pushing sink on a full stack.
SinkRefusal ==
    IF sink \in {"pop", "pop_float"} /\ Last.stack = <<>>
    THEN Err(Underflow)
    ELSE IF sink = "pop_float" /\ Top(Last.stack).t # "Float"
    THEN Err(TypeError({"Float"}, Top(Last.stack).t))
    ELSE IF sink = "push" /\ Len(Last.stack) >= capacity
    THEN Err(Overflow)
    ELSE NoResult

\* C18: when the sink returns Err(e) during a Disp, the step returns
\* Err(e) with pc still at the Disp and no record added for it, and an
\* exec that made the step has returned Err(e): nothing runs after it.
C18_SinkErrorEndsExec ==
    (Executed("Disp") /\ SinkRefusal # NoResult) =>
       /\ Last.res = SinkRefusal
       /\ pc = Last.pc
       /\ Len(effects) = Len(hist.disp)
       /\ hist.via = "exec" => mode = "idle" /\ result = SinkRefusal

\* tests::test_disp with a sink that wants a Float: the first Disp finds
\* Int(1).
C18_Witness ==
    /\ program = TestDisp /\ sink = "pop_float" /\ hist.via = "exec"
    /\ Executed("Disp")
    /\ result = Err(TypeError({"Float"}, "Int"))
    /\ pc = 1 /\ stack = <<>> /\ effects = <<>>

\* The instruction list as the loader sees it once the label definitions
\* are taken out, and the address each definition stands for.
NonLabels == SelectSeq(insns, LAMBDA x : x.i # "Label")
Definitions(name) == {n \in 1..Len(insns) : insns[n] = Label(name)}
DefinedOnce(name) == Cardinality(Definitions(name)) = 1
KeptBefore(n) == Cardinality({j \in 1..(n - 1) : insns[j].i # "Label"})
LabelAddress(name) == KeptBefore(CHOOSE n \in Definitions(name) : TRUE)

\* lower has returned a Program for insns.
Lowered == mode # "source" /\ result # Panic("name error")

\* The positions of NonLabels that hold a literal, and the literal: a
\* value, or the address of the label a reference names.
Literals ==
    {c \in 1..Len(NonLabels) :
        \/ NonLabels[c].i = "Val"
        \/ NonLabels[c].i = "LabelRef" /\ DefinedOnce(NonLabels[c].name)}
Literal(c) ==
    IF NonLabels[c].i = "Val" THEN NonLabels[c].val
    ELSE VAddr(LabelAddress(NonLabels[c].name))

\* C19: in the program lower returns, equal literals (label references to
\* one address included) load from the same pool index, literals that
\* differ in tag or contents load from different indices, and no two pool
\* entries are equal.
C19_PoolDeduplicated ==
    Lowered =>
       /\ \A c, d \in Literals :
             ValueEq(Literal(c), Literal(d))
                <=> program.code[c] = program.code[d]
       /\ \A j, k \in 1..Len(program.data) :
             ValueEq(program.data[j], program.data[k]) => j = k

\* The address that code[c + 1] loads when it is a LoadI of an Addr, else -1.
LoadedAddr(c) ==
    LET opcode == program.code[c + 1]
    IN IF opcode.op = "LoadI" /\ opcode.k < Len(program.data)
          /\ program.data[opcode.k + 1].t = "Addr"
       THEN program.data[opcode.k + 1].v
       ELSE -1

\* The definition at position n of insns stands for address a: a is the
\* number of non-label instructions before it, and the opcode at a is the
\* one generated from the first non-label instruction after it, or a is
\* len(code) when none follows.
StandsFor(n, a) ==
    LET after == {j \in (n + 1)..Len(insns) : insns[j].i # "Label"}
    IN /\ a = KeptBefore(n)
       /\ IF after = {} THEN a = Len(program.code)
          ELSE LET j == CHOOSE j \in after : \A l \in after : j <= l
               IN /\ a < Len(program.code)
                  /\ insns[j] = NonLabels[a + 1]
                  /\ IF insns[j].i = "Op"
                     THEN program.code[a + 1] = insns[j].op
                     ELSE program.code[a + 1].op = "LoadI"

\* C20: in the program lower returns, every label reference, before or
\* after the definition, has become a load of the address its label
\* stands for (the number of non-label instructions before the
\* definition, which is where the next opcode sits), and a Branch that
\* follows the reference lands there.
C20_LabelsResolve ==
    Lowered =>
       /\ Len(program.code) = Len(NonLabels)
       /\ \A c \in 1..Len(NonLabels) :
             NonLabels[c].i = "LabelRef" =>
                /\ \E n \in Definitions(NonLabels[c].name) :
                      StandsFor(n, LoadedAddr(c - 1))
                /\ (/\ Executed("Branch") /\ Last.pc = c
                    /\ Top(Last.stack) = VAddr(LoadedAddr(c - 1)))
                      => pc = LoadedAddr(c - 1)

\* The claim's example, 100 true #tgt bt 10 #end ba tgt: 5 end: +, lowered
\* and run to Halt: the forward references are addresses 7 and 8, and the
\* result is Int(105) at depth 1.
C20_Witness ==
    /\ insns = TestBranchSource(TRUE, BranchTrue)
    /\ program = TestBranch(TRUE, BranchTrue)
    /\ LoadedAddr(2) = 7 /\ LoadedAddr(5) = 8
    /\ mode = "idle" /\ result = Ok("()")
    /\ stack = <<VInt(105)>>

\* A backward reference followed by Branch has taken the branch.
C20_WitnessBackward ==
    /\ insns = <<Label("a"), LabelRef("a"), Op(Branch)>>
    /\ Executed("Branch") /\ pc = 0 /\ stack = <<>>

\* Some reference of insns names a label that has no definition.
UndefinedReference ==
    \E n \in 1..Len(insns) :
       insns[n].i = "LabelRef" /\ Definitions(insns[n].name) = {}

\* C21: lowering a list with a reference to an undefined label returns an
\* Err value; a list whose references are all defined is accepted, and a
\* label definition gives no opcode and no pool entry of its own.
C21_UndefinedReferenceIsErr ==
    mode # "source" =>
       IF UndefinedReference
       THEN result.k = "Err"
       ELSE /\ result.k # "Panic" \/ hist.via # "none"
            /\ Len(program.code) = Len(NonLabels)
            /\ Len(program.data) <=
                  Cardinality({c \in 1..Len(NonLabels) : NonLabels[c].i # "Op"})

\* The largest number of entries the pool may have.
PoolLimit == 2 ^ PoolIndexBits - 1

\* C22: lower returns no Program for more than 65535 distinct literals,
\* and in the Program it returns the literal looked at is loaded by a
\* LoadI(k) with k < len(data) and data[k] that literal.
C22_PoolOverflowRejected ==
    pool.lowered =>
       /\ pool.distinct <= PoolLimit
       /\ pool.index < pool.data_len
       /\ pool.index = pool.at

\* The instruction that code[c] disassembles to: the literal of its pool
\* cell for a LoadI, the opcode itself otherwise.
Disassembled(c) ==
    LET opcode == program.code[c]
    IN IF opcode.op = "LoadI"
       THEN IF opcode.k < Len(program.data)
            THEN Val(program.data[opcode.k + 1])
            ELSE Op(opcode)
       ELSE Op(opcode)

\* C23: disassembling the lowered program gives back the instruction list
\* without its label definitions and with every reference replaced by the
\* address of its label, one opcode per instruction and in the same order:
\* the LoadI emitted for a literal names the cell that holds this literal.
C23_LoweringRoundTrip ==
    /\ Lowered =>
          /\ Len(program.code) = Len(NonLabels)
          /\ \A c \in 1..Len(NonLabels) :
                IF NonLabels[c].i = "LabelRef"
                THEN \E n \in Definitions(NonLabels[c].name) :
                        Disassembled(c) = Val(VAddr(KeptBefore(n)))
                ELSE Disassembled(c) = NonLabels[c]
    /\ pool.lowered => pool.index = pool.at

\* The scopes of the Env that bind the key of the last get.
Defining == {i \in 1..Len(scopes.stack) : scopes.got.key \in DOMAIN scopes.stack[i]}

\* C28: get returns the binding of the innermost scope that defines the
\* name, None when no scope does; whatever is defined or imported in a
\* scope, the scopes below it show what they showed when it was begun,
\* and the end of a scope brings exactly those bindings back.
C28_InnermostBindingWins ==
    ~scopes.panicked =>
       /\ scopes.got # NoResult =>
             scopes.got.value =
                IF Defining = {} THEN None
                ELSE LET i == CHOOSE i \in Defining : \A j \in Defining : j <= i
                     IN Some(scopes.stack[i][scopes.got.key])
       /\ \A i \in 1..Len(scopes.stack) :
             Visible(SubSeq(scopes.stack, 1, i - 1)) = scopes.begun[i]
       /\ scopes.restored # NoResult =>
             Visible(scopes.stack) = scopes.restored

\* A child scope has just been ended: x has the binding of the scope
\* below and y has none.
C28_Witness ==
    /\ scopes.stack = <<[x |-> "Int"]>>
    /\ scopes.restored = [x |-> Some("Int"), y |-> None]

\* A get found the inner of two bindings.
C28_WitnessShadowing ==
    /\ scopes.stack = <<[x |-> "Int"], [x |-> "Str"]>>
    /\ scopes.got = [key |-> "x", value |-> Some("Str")]

\* The expression the checker was given, once eval_expr has returned.
Typed(kind) ==
    /\ checker.returned # NoResult
    /\ "e" \in DOMAIN checker.ast
    /\ checker.ast.e = kind

RangeOf(seq) == {seq[i] : i \in DOMAIN seq}

\* The types of the items of the List the checker was given.
ItemTypes == EvalAll(checker.before, checker.ast.items, <<>>).res.val

\* C24: the element type of a List is narrow of its item types: Unit for no
\* items, T when every item has type T, and for two or more distinct types
\* a Union of exactly those types, its members pairwise distinct, wherever
\* the duplicates stand.
C24_NarrowDeduplicates ==
    (Typed("List") /\ checker.returned.k = "Ok") =>
        LET narrowed == checker.returned.val.item
        IN /\ ItemTypes = <<>> => narrowed = TUnit
           /\ Cardinality(RangeOf(ItemTypes)) = 1 => narrowed = ItemTypes[1]
           /\ Cardinality(RangeOf(ItemTypes)) >= 2 =>
                 /\ narrowed.tt = "Union"
                 /\ RangeOf(narrowed.types) = RangeOf(ItemTypes)
                 /\ \A i, j \in DOMAIN narrowed.types :
                       i # j => narrowed.types[i] # narrowed.types[j]

\* What narrow does: the Union keeps one member for each run of equal
\* neighbours.
C24_NarrowDedupsNeighbours ==
    (Typed("List") /\ checker.returned.k = "Ok") =>
        LET narrowed == checker.returned.val.item
        IN /\ ItemTypes = <<>> => narrowed = TUnit
           /\ Cardinality(RangeOf(ItemTypes)) = 1 => narrowed = ItemTypes[1]
           /\ Cardinality(RangeOf(ItemTypes)) >= 2 =>
                 /\ narrowed.tt = "Union"
                 /\ Len(narrowed.types) >= 2
                 /\ RangeOf(narrowed.types) = RangeOf(ItemTypes)
                 /\ \A i \in 1..(Len(narrowed.types) - 1) :
                       narrowed.types[i] # narrowed.types[i + 1]

\* The callee and the arguments of the Call the checker was given, typed
\* in the environment it had.
CalleeType == eval_expr(checker.before, checker.ast.func).res
ArgTypes == EvalAll(checker.before, checker.ast.args, <<>>).res

\* C25: a Call whose callee and arguments have types is NotCallable when
\* the callee is not a Lambda, has the Lambda's return type when the
\* argument types equal the formals in number and one by one, and is an
\* ArgError when they differ.
C25_CallChecksArguments ==
    (Typed("Call") /\ CalleeType.k = "Ok" /\ ArgTypes.k = "Ok") =>
        IF CalleeType.val.tt # "Lambda"
        THEN checker.returned = Err(NotCallable(CalleeType.val))
        ELSE IF ArgTypes.val = CalleeType.val.args
        THEN checker.returned = Ok(CalleeType.val.ret)
        ELSE /\ checker.returned.k = "Err"
             /\ checker.returned.err.e = "ArgError"

\* What eval_call does: whatever the arguments, a Lambda returns.
C25_CallOfLambdaReturns ==
    (Typed("Call") /\ CalleeType.k = "Ok" /\ ArgTypes.k = "Ok") =>
        IF CalleeType.val.tt # "Lambda"
        THEN checker.returned = Err(NotCallable(CalleeType.val))
        ELSE checker.returned = Ok(CalleeType.val.ret)

\* The scope of the formals of the Lambda the checker was given: each name
\* with the type of its last declaration.
FormalScope ==
    LET formals == checker.ast.args
        declared == {formals[i][1] : i \in DOMAIN formals}
    IN [n \in declared |->
           formals[CHOOSE i \in DOMAIN formals :
                       /\ formals[i][1] = n
                       /\ \A j \in DOMAIN formals :
                             formals[j][1] = n => j <= i][2]]

BodyType ==
    eval_expr(Append(checker.before, FormalScope), checker.ast.body).res

\* C26: the body of a Lambda is typed with the formals bound over the
\* enclosing scope; a body of the declared type gives Lambda(formal types
\* in order, ret), a body of another type Mismatch(ret, body type); the
\* enclosing scope is afterwards as it was.
C26_LambdaTypedInChildScope ==
    Typed("Lambda") =>
        /\ checker.types = checker.before
        /\ BodyType.k = "Ok" =>
              IF BodyType.val = checker.ast.ret
              THEN checker.returned =
                       Ok(TLambda([i \in DOMAIN checker.ast.args |->
                                      checker.ast.args[i][2]],
                                  checker.ast.ret))
              ELSE checker.returned =
                       Err(Mismatch(checker.ast.ret, BodyType.val))

\* test_lambda: lambda (x: Int) -> Int { x + 4 } in the empty environment.
C26_Witness ==
    /\ Typed("Lambda")
    /\ checker.before = root
    /\ checker.ast = ExprLambda(<<<<"x", TInt>>>>, TInt,
                                ExprBinOp("Add", ExprId("x"), ExprLit("Int")))
    /\ checker.returned = Ok(TLambda(<<TInt>>, TInt))
    /\ env_get(checker.types, "x") = None

\* A formal shadows the outer x: Str, which is x: Str again afterwards.
C26_WitnessShadowing ==
    /\ Typed("Lambda")
    /\ env_get(checker.before, "x") = Some(TStr)
    /\ checker.ast = ExprLambda(<<<<"x", TInt>>>>, TInt, ExprId("x"))
    /\ checker.returned = Ok(TLambda(<<TInt>>, TInt))
    /\ env_get(checker.types, "x") = Some(TStr)

\* A body of another type than declared.
C26_WitnessMismatch ==
    /\ Typed("Lambda")
    /\ checker.returned = Err(Mismatch(TStr, TInt))

RECURSIVE DefsOf(_, _)
\* The bindings in force after the statements of a block: each Def that
\* types binds its name in the block's scope, the last scope of types.
DefsOf(types, stmts) ==
    IF stmts = <<>> THEN types
    ELSE LET stmt == Head(stmts)
             val == eval_expr(types, stmt.val).res
         IN IF stmt.s = "Def" /\ val.k = "Ok"
            THEN DefsOf([types EXCEPT ![Len(types)] =
                            [n \in DOMAIN @ \cup {stmt.name} |->
                                IF n = stmt.name THEN val.val ELSE @[n]]],
                        Tail(stmts))
            ELSE DefsOf(types, Tail(stmts))

\* C27: a Block leaves the enclosing scope as it was, every name resolving
\* afterwards as before, while the type it returns is that of ret with the
\* names of its Defs bound to the inferred types, shadowing the outer ones.
C27_BlockLeavesEnclosingScope ==
    Typed("Block") =>
        /\ checker.types = checker.before
        /\ \A n \in Names \cup {"f"} :
              env_get(checker.types, n) = env_get(checker.before, n)
        /\ checker.returned.k = "Ok" =>
              checker.returned =
                  eval_expr(DefsOf(Append(checker.before, <<>>),
                                   checker.ast.stmts),
                            checker.ast.ret).res

\* A name defined only inside the block: bound for ret, Undefined after.
C27_Witness ==
    /\ Typed("Block")
    /\ checker.ast = ExprBlock(<<Def("y", ExprLit("Int"))>>, ExprId("y"))
    /\ env_get(checker.before, "y") = None
    /\ checker.returned = Ok(TInt)
    /\ eval_expr(checker.types, ExprId("y")).res = Err(Undefined("y"))

\* A shadowed name has its outer type again, and a later statement of the
\* block sees the Def before it.
C27_WitnessShadowing ==
    /\ Typed("Block")
    /\ checker.ast = ExprBlock(<<Def("x", ExprLit("Str")),
                                 Def("y", ExprId("x"))>>, ExprId("y"))
    /\ env_get(checker.before, "x") = Some(TInt)
    /\ checker.returned = Ok(TStr)
    /\ env_get(checker.types, "x") = Some(TInt)
    /\ env_get(checker.types, "y") = None

\* The operand types of the BinOp the checker was given.
LeftType == eval_expr(checker.before, checker.ast.l).res
RightType == eval_expr(checker.before, checker.ast.r).res

\* The result for two operands of one plain type, Eq apart.
SameTypeResult ==
    [Bool |-> TBool, Int |-> TInt, Float |-> TFloat, Str |-> TFloat]

\* C29: a BinOp whose operands have types has the operand type when the
\* operator is Eq and the types are equal; otherwise Bool, Int and Float
\* pairs give their own type and a Str pair gives Float, whatever the
\* operator; every other pair is Mismatch(left type, right type).
C29_BinOpTyping ==
    (Typed("BinOp") /\ LeftType.k = "Ok" /\ RightType.k = "Ok") =>
        IF checker.ast.op = "Eq" /\ LeftType.val = RightType.val
        THEN checker.returned = Ok(LeftType.val)
        ELSE IF /\ LeftType.val = RightType.val
                /\ LeftType.val.tt \in DOMAIN SameTypeResult
        THEN checker.returned = Ok(SameTypeResult[LeftType.val.tt])
        ELSE checker.returned = Err(Mismatch(LeftType.val, RightType.val))

\* Two strings under an operator other than Eq give Float.
C29_Witness ==
    /\ Typed("BinOp")
    /\ checker.ast.op = "Add"
    /\ LeftType = Ok(TStr)
    /\ RightType = Ok(TStr)
    /\ checker.returned = Ok(TFloat)

\* Eq on two lists of one type gives that list type; on two strings, Str.
C29_WitnessEq ==
    /\ Typed("BinOp")
    /\ checker.ast.op = "Eq"
    /\ LeftType = RightType
    /\ checker.returned \in {Ok(TList(TInt)), Ok(TStr)}

C29_WitnessMismatch ==
    /\ Typed("BinOp")
    /\ checker.returned = Err(Mismatch(TInt, TStr))

\* The frame and the stack at the Ret of the last step.
RetFrame == Last.cur_frame
RetVals == Last.op.val.n
Returning ==
    /\ Executed("Ret") /\ Last.res = Ok("()")
    /\ Len(Last.stack) = RetFrame.frame_pointer + RetFrame.arity + RetVals

\* C30: a Ret(m) in a frame of arity n with exactly m values above the n
\* arguments leaves what was below the arguments, then the m values in
\* their order from frame_pointer on; the current frame is the one that
\* was current at the matching Call, the call stack is as it was then, and
\* pc is the index after that Call.
C30_RetRestoresCaller ==
    Returning =>
        LET fp == RetFrame.frame_pointer
            n == RetFrame.arity
        IN /\ hist.returned # NoResult
           /\ Len(stack) = fp + RetVals
           /\ SubSeq(stack, 1, fp) = SubSeq(Last.stack, 1, fp)
           /\ \A i \in 1..RetVals : stack[fp + i] = Last.stack[fp + n + i]
           /\ cur_frame = hist.returned.frame
           /\ Len(call_stack) = hist.returned.depth
           /\ call_stack = SubSeq(Last.call_stack, 1, hist.returned.depth)
           /\ pc = hist.returned.at + 1

\* A return from a call made inside another call: one value returned over
\* two arguments that differ from it, back into the frame of the outer
\* call.
C30_Witness ==
    /\ Returning
    /\ RetVals = 1
    /\ RetFrame.arity = 2
    /\ hist.returned.depth = 1
    /\ cur_frame = hist.returned.frame
    /\ cur_frame.arity > 0
    /\ Top(stack) = Top(Last.stack)
    /\ Top(stack) # Last.stack[RetFrame.frame_pointer + 1]
    /\ pc = hist.returned.at + 1

\* The operand of the Dup of the last step, and n copies of a value.
DupCount == Last.op.val.n
Copies(v, n) == [i \in 1..n |-> v]

DupLeavesCopies ==
    IF Last.stack = <<>> THEN Last.res = Err(Underflow)
    ELSE \/ /\ Last.res = Ok("()")
            /\ stack = Last.stack \o Copies(Top(Last.stack), DupCount)
         \/ /\ Last.res = Err(Overflow)
            /\ Len(Last.stack) + DupCount > capacity

\* C31: Dup(n), for every n up to 255, fails with Underflow on an empty
\* stack and otherwise leaves n more copies of the top value above it, or
\* fails with Overflow when they do not fit in the capacity.
C31_DupCopiesTop ==
    Executed("Dup") => DupLeavesCopies

\* The same for every n but the largest, whose n + 1 does not fit in u8.
C31_DupBelowU8Max ==
    Executed("Dup") /\ DupCount < U8Max => DupLeavesCopies

\* a shifted by b taken modulo the Int width: to the left with the bits
\* above the width lost, to the right with the sign kept.
Shifted(op, a, b) ==
    LET amount == b % IntBits
    IN IF op = "Shl" THEN WrapInt(a * 2 ^ amount) ELSE a \div (2 ^ amount)

ShiftYieldsInt ==
    /\ Last.res = Ok("()")
    /\ stack = Append(Without(Last.stack, 2),
                      VInt(Shifted(Last.op.val.bop, OperandA.v, OperandB.v)))

\* C32: Shl and Shr on two Ints never fail and yield the Int shifted by
\* the amount modulo the width, for every amount, negative ones and those
\* of the width and above included; any other pair is a TypeMismatch.
C32_ShiftsTotalOnInts ==
    BinaryOf({"Shl", "Shr"}) =>
        IF Both(OperandA, OperandB, "Int") THEN ShiftYieldsInt
        ELSE Last.res = Err(TypeMismatch(OperandA.t, OperandB.t))

\* The same for the amounts from 0 to the width less one.
C32_ShiftsWithinWidth ==
    BinaryOf({"Shl", "Shr"}) =>
        IF Both(OperandA, OperandB, "Int")
        THEN OperandB.v \in 0..(IntBits - 1) => ShiftYieldsInt
        ELSE Last.res = Err(TypeMismatch(OperandA.t, OperandB.t))

\* Without overflow checks the amount is masked to the width.
C32_ShiftsMaskedInRelease ==
    BinaryOf({"Shl", "Shr"}) /\ build = "release" =>
        (Both(OperandA, OperandB, "Int") => ShiftYieldsInt)

\* C33: Index on an index i above a list l pushes l[i] in their place
\* when i is an Addr below the length of l and fails with IndexError(i)
\* when it is an Addr at or above it; an index that is not an Addr is a
\* TypeError expecting Addr (an Int too), and below an Addr anything but
\* a List is a TypeError expecting List.
C33_IndexReadsList ==
    Executed("Index") /\ Len(Last.stack) >= 2 =>
        IF OperandB.t # "Addr"
        THEN Last.res = Err(TypeError({"Addr"}, OperandB.t))
        ELSE IF OperandA.t # "List"
        THEN Last.res = Err(TypeError({"List"}, OperandA.t))
        ELSE IF OperandB.v < Len(OperandA.v)
        THEN /\ Last.res = Ok("()")
             /\ stack = Append(Without(Last.stack, 2),
                               OperandA.v[OperandB.v + 1])
        ELSE Last.res = Err(IndexError(OperandB.v))

\* tests::test_index, and the second element of a list of two.
C33_Witness ==
    /\ Executed("Index")
    /\ Last.stack = <<VList(<<VInt(1), VStr("a")>>), VAddr(1)>>
    /\ Last.res = Ok("()")
    /\ stack = <<VStr("a")>>

C33_WitnessIndexError ==
    /\ Executed("Index")
    /\ Last.stack = <<VList(<<VInt(1)>>), VAddr(1)>>
    /\ Last.res = Err(IndexError(1))

C33_WitnessIntRejected ==
    /\ Executed("Index")
    /\ Last.stack = <<VList(<<VInt(1)>>), VInt(0)>>
    /\ Last.res = Err(TypeError({"Addr"}, "Int"))

C33_WitnessNotAList ==
    /\ Executed("Index")
    /\ Last.stack = <<VStr("a"), VAddr(0)>>
    /\ Last.res = Err(TypeError({"List"}, "Str"))

\* The statement the checker was given, once check_statement has returned.
Checked(kind) ==
    /\ checker.returned # NoResult
    /\ "s" \in DOMAIN checker.ast
    /\ checker.ast.s = kind

\* The type of the expression a MapIter iterates over, and the scope of
\* its body when the values are enumerated in the order o.
IteratedType == eval_expr(checker.before, checker.ast.map).res
ValueType(o) == narrow([i \in DOMAIN o |-> IteratedType.val.fields[o[i]]])
IterScope(o) ==
    [n \in {checker.ast.key, checker.ast.value} |->
        IF n = checker.ast.value THEN ValueType(o) ELSE TStr]
BodyChecked(o) ==
    check_statement(Append(checker.before, IterScope(o)),
                    checker.ast.body).res

MapIterChecks(orders) ==
    /\ checker.types = checker.before
    /\ IteratedType.k = "Ok" =>
          IF IteratedType.val.tt # "Map"
          THEN checker.returned = Err(NotIterable(IteratedType.val))
          ELSE \A o \in orders : checker.returned = BodyChecked(o)

\* C34: a MapIter over anything but a Map is NotIterable; over a Map its
\* body is checked with the key bound to Str and the value to narrow of
\* the field types, with the same outcome whichever order the fields are
\* enumerated in; neither name is bound afterwards.
C34_MapIterOrderIndependent ==
    Checked("MapIter") /\ checker.ast.key # checker.ast.value =>
        MapIterChecks(Orders(DOMAIN IteratedType.val.fields))

\* The same for the order this run's maps iterate in alone.
C34_MapIterInIterationOrder ==
    Checked("MapIter") /\ checker.ast.key # checker.ast.value =>
        MapIterChecks({SelectSeq(checker.order,
                                 LAMBDA n : n \in DOMAIN IteratedType.val.fields)})

\* C38: check_statement and check_program return Ok(()) or a TypeError
\* for every statement and program, a MapIter whose key and value names
\* are equal and statements nested in loop bodies included.
C38_CheckingIsTotal ==
    /\ checker.returned # NoResult
    /\ "e" \notin DOMAIN checker.ast
    => checker.returned.k \in {"Ok", "Err"}

\* The same for every statement and program without a MapIter whose two
\* names are equal.
SameNames(stmt) ==
    /\ stmt.s = "MapIter"
    /\ stmt.key = stmt.value
C38_TotalButForSameNames ==
    /\ checker.returned # NoResult
    /\ "e" \notin DOMAIN checker.ast
    /\ "s" \in DOMAIN checker.ast =>
           /\ ~SameNames(checker.ast)
           /\ checker.ast.s \in {"While", "ListIter"} =>
                 ~SameNames(checker.ast.body)
    /\ "code" \in DOMAIN checker.ast =>
           \A i \in DOMAIN checker.ast.code : ~SameNames(checker.ast.code[i])
    => checker.returned.k \in {"Ok", "Err"}

\* The last step returned an error other than Halt.
StepFailed ==
    /\ Stepped
    /\ Last.res.k = "Err"
    /\ Last.res.err # HaltErr

\* The operands the opcode of the last step pops before it can fail: both
\* operands of a Binary, the target of a Branch or Call.
PoppedFirst ==
    CASE Last.op.val.op = "Binary" -> 2
      [] Last.op.val.op \in {"Branch", "Call"} -> 1
      [] OTHER -> 0

\* C35: after a step that returned an error other than Halt, pc, the call
\* stack and the current frame are what they were before the step, pc
\* still at the opcode that failed; the operands a Binary, Branch or Call
\* popped before failing are gone from the stack.
C35_FailedStepKeepsPosition ==
    StepFailed =>
        /\ pc = Last.pc
        /\ call_stack = Last.call_stack
        /\ cur_frame = Last.cur_frame
        /\ Last.op.k = "Ok" =>
              /\ fetch(pc) = Last.op
              /\ PoppedFirst > 0 =>
                    \E n \in 0..PoppedFirst :
                        /\ n = PoppedFirst \/ n = Len(Last.stack)
                        /\ stack = Without(Last.stack, n)

\* Overflow while pushing the value an opcode yielded, inside a call.
C35_Witness ==
    /\ StepFailed
    /\ Last.res = Err(Overflow)
    /\ Last.op.val.op = "Arg"
    /\ call_stack # <<>>
    /\ cur_frame.arity > 0
    /\ pc = Last.pc /\ pc > 0

\* An operand popped by the opcode that failed is not put back.
C35_WitnessPopped ==
    /\ StepFailed
    /\ Last.op.k = "Ok"
    /\ Last.op.val.op = "Binary"
    /\ Last.stack # <<>>
    /\ stack = Without(Last.stack, Len(Last.stack))
    /\ pc = Last.pc

\* C36: while exec runs, the call stack holds at most as many frames as
\* the operand stack has capacity.
C36_CallStackWithinCapacity ==
    mode = "exec" => Len(call_stack) <= capacity

\* What holds instead: only the operand stack is bounded, and a Call that
\* finds its target saves a frame whatever the depth.
C36_CallSavesFrameAtAnyDepth ==
    /\ Len(stack) <= capacity
    /\ Executed("Call") /\ Last.res = Ok("()") =>
          call_stack = Append(Last.call_stack, Last.cur_frame)

\* The names insns defines more than once, and the last definition of one.
DefinedAgain == {name \in {"a", "b", "tgt", "end"} :
                    Cardinality(Definitions(name)) > 1}
LastDefinition(name) ==
    CHOOSE n \in Definitions(name) : \A l \in Definitions(name) : l <= n

\* The reference at position c of NonLabels stands before, between or after
\* the definitions of its name in insns.
RefPosition(c) ==
    CHOOSE n \in 1..Len(insns) : insns[n].i # "Label" /\ KeptBefore(n) = c - 1
Placed(c) ==
    LET n == RefPosition(c)
        defs == Definitions(NonLabels[c].name)
    IN IF \A d \in defs : n < d THEN "before"
       ELSE IF \A d \in defs : d < n THEN "after"
       ELSE "between"

\* C37: a list that defines a name more than once (and defines every name
\* it refers to) is lowered without an error, and every reference to that
\* name loads the address of the name's last definition.
C37_LastDefinitionWins ==
    (mode # "source" /\ DefinedAgain # {} /\ ~UndefinedReference) =>
       /\ Lowered
       /\ Len(program.code) = Len(NonLabels)
       /\ \A c \in 1..Len(NonLabels) :
             (NonLabels[c].i = "LabelRef" /\ NonLabels[c].name \in DefinedAgain)
                => LoadedAddr(c - 1) = KeptBefore(LastDefinition(NonLabels[c].name))

\* A list with definitions of one name at addresses 1 and 3 is lowered, and
\* the references before, between and after them all load address 3.
C37_Witness ==
    /\ insns = TwiceDefined /\ Lowered
    /\ Placed(1) = "before" /\ Placed(3) = "between" /\ Placed(4) = "after"
    /\ {KeptBefore(n) : n \in Definitions("a")} = {1, 3}
    /\ LoadedAddr(0) = 3 /\ LoadedAddr(2) = 3 /\ LoadedAddr(3) = 3

\* Three definitions at addresses 0, 1 and 2: the reference loads 2, the
\* length of the code.
C37_WitnessThrice ==
    /\ insns = ThriceDefined /\ Lowered
    /\ Cardinality(Definitions("a")) = 3
    /\ LoadedAddr(1) = 2 /\ Len(program.code) = 2

\* get_state has returned, and the lines read while it waited.
Returned == read_source.caller = "idle" /\ read_source.got # NoResult
InGetState == read_source.caller # "idle"

\* A get_state that returns has waited for at most one complete line.
C39_ReturnsWithinOneLine == Returned => read_source.took <= 1

\* A woken get_state returns.
C39_WokenGetStateReturns ==
    (read_source.caller = "woken") ~> (read_source.caller = "idle")

\* C39: with both threads scheduled fairly and lines arriving, a get_state
\* call returns once at most one further complete line has been read, and
\* the reader taking the mutex again cannot keep a woken get_state from
\* returning.
C39_NoLostWakeupNoStarvation ==
    []C39_ReturnsWithinOneLine /\ C39_WokenGetStateReturns

\* What holds instead: the line is written and cloned under the mutex
\* only, by one thread at a time.
C39_LineUnderMutex ==
    /\ read_source.owner = "reader"
          <=> read_source.reader \in {"read", "notify", "unlock"}
    /\ read_source.owner = "caller"
          <=> read_source.caller \in {"locked", "clone"}

\* With a mutex that passes no waiting thread over forever, every call
\* returns.
C39_ReturnsUnderFairMutex == InGetState ~> ~InGetState

====
